---- MODULE Spec2Model ----
(***************************************************************************)
(* Model of the dubbing engine of video-translator:                        *)
(*   - TTSService.splitTextProportionally          (SpecSplit)             *)
(*   - TTSService.alignTranslatedSegmentsWithTimestamps (SpecAlign)        *)
(*   - TTSService.synthesizeWithWhisperTimestamps  (SpecTs)                *)
(*   - VideoProcessor.process / cancel with TTSService.synthesize and the  *)
(*     strategy fallback, driven by ProcessController (Spec)               *)
(*                                                                         *)
(* Times are integers, in milliseconds.  A text is a sequence of           *)
(* one-character strings.  Positions in a text are the 0-based positions   *)
(* of the JavaScript source.                                               *)
(***************************************************************************)
EXTENDS Integers, Sequences, FiniteSets, TLC

VARIABLES
    phase,               \* position of the modelled run (see each specification)
    translatedText,      \* the translated text handed to the synthesis
    targetSegmentCount,  \* second argument of splitTextProportionally
    translatedSegments,  \* result of splitTextProportionally
    rawSegments,         \* transcription entries of the recognizer's JSON output
    whisperSegments,     \* recognizer segments [start, end] (ms)
    alignedSegments,     \* result of alignTranslatedSegmentsWithTimestamps
    originalDuration,    \* getAudioDuration(originalAudioPath) (ms)
    segIdx,              \* loop index i of the running strategy
    adaptiveTtsRate,     \* [prefix, num]: the string prefix \o num \o "%"
    calibrationSamples,  \* sequence of [targetDuration, actualDuration]
    segmentAudioFiles,   \* queue of artifacts [kind, dur]
    ttsCalls,            \* synthesizer calls issued: [strategy, seg, rate]
    finalDuration,       \* duration of the output track (-1: none yet)
    strategy,            \* strategy of TTSService.synthesize now running
    strategiesRun,       \* strategies started so far, in order
    failedStrategies,    \* strategies that threw
    vpc,                 \* position of VideoProcessor.process
    cancelled,           \* VideoProcessor.cancelled
    cancelSeen,          \* where the job was when cancel() ran (NoCancel before)
    active,              \* jobId \in ProcessController.activeProcessors
    tempDirExists,       \* the job's temp directory exists
    tempFiles,           \* files in the job's temp directory
    progress,            \* percentages of the progress events emitted
    jobResult,           \* what process() resolved with (NoResult before)
    tpc,                 \* position of TranslationService.translate
    trInput,             \* its arguments [text, sourceLanguage, targetLanguage]
    attempt,             \* loop variable of translateWithGoogle
    trLog,               \* requests sent and delays slept, in order
    trResult,            \* what translate returned (NoTranslation before)
    toolFailures,        \* audio-toolkit operations that rejected (timestamp strategy)
    completeEvents,      \* number of io.emit('process-complete') calls of the controller
    lastReply,           \* last HTTP reply of the controller (NoReply before)
    hpc,                 \* position of startProcessing in the renderer hook
    processing,          \* useState processing
    hookResult,          \* useState result (NoHookResult: null)
    currentJobId,        \* useState currentJobId (NoJobId: null)
    currentStage,        \* useState currentStage
    socket,              \* the open socket: [jobId its handlers closed over, connected]
    effectPending,       \* currentJobId changed and the socket effect has not re-run yet
    inbox,               \* broadcasts sent to the open socket and not yet handled
    server,              \* the job on the backend as the hook sees it
    response,            \* the reply to POST /api/process is on its way
    broadcasts           \* number of 'progress' events the backend has emitted

vars == << phase, translatedText, targetSegmentCount, translatedSegments,
           rawSegments, whisperSegments, alignedSegments, originalDuration, segIdx,
           adaptiveTtsRate, calibrationSamples, segmentAudioFiles, ttsCalls,
           finalDuration, strategy, strategiesRun, failedStrategies, vpc,
           cancelled, cancelSeen, active, tempDirExists, tempFiles, progress,
           jobResult, tpc, trInput, attempt, trLog, trResult,
           toolFailures, completeEvents, lastReply,
           hpc, processing, hookResult, currentJobId, currentStage, socket,
           effectPending, inbox, server, response, broadcasts >>

trVars == << tpc, trInput, attempt, trLog, trResult >>

hookVars == << hpc, processing, hookResult, currentJobId, currentStage, socket,
              effectPending, inbox, server, response, broadcasts >>

toolVars == << toolFailures >>

ctlVars == << completeEvents, lastReply >>

tsVars == << segIdx, adaptiveTtsRate, calibrationSamples, segmentAudioFiles,
             ttsCalls, finalDuration >>

jobVars == << strategy, strategiesRun, failedStrategies, vpc, cancelled,
              cancelSeen, active, tempDirExists, tempFiles, progress, jobResult >>

\* jobVars without tempFiles
jobVars2 == << strategy, strategiesRun, failedStrategies, vpc, cancelled,
               cancelSeen, active, tempDirExists, progress, jobResult >>

-----------------------------------------------------------------------------
(* Bounds of the model *)

\* longest text drawn for splitTextProportionally
MaxTextLen == 4
\* length of the texts drawn with a search window of two characters each side
LongTextLen == 20
\* largest targetSegmentCount drawn for splitTextProportionally
MaxCount == 4
\* longest list of translated parts drawn for the aligner
MaxParts == 3
\* longest translated part drawn for the aligner
MaxPartLen == 2
\* longest recognizer list drawn for the aligner
MaxWhisper == 3
\* recognizer times drawn for the aligner are 0..MaxTime units of TimeUnit
MaxTime == 3

\* most segments of the recognizer lists drawn with varied gaps and durations
MaxSmallSegments == 2
\* most segments of the plain recognizer lists drawn for the rate calibration
MaxSegments == 10
\* most recognizer segments of a job of the whole pipeline
MaxJobSegments == 2

Alphabet == {"a", " ", ".", ","}

-----------------------------------------------------------------------------
(* Arithmetic helpers *)

Abs(x) == IF x < 0 THEN -x ELSE x
Min(a, b) == IF a <= b THEN a ELSE b
Max(a, b) == IF a >= b THEN a ELSE b

\* Math.round(p / q) for q > 0: floor(p/q + 1/2)
RoundDiv(p, q) == (2 * p + q) \div (2 * q)

\* Math.ceil(p / q) for q > 0
CeilDiv(p, q) == -((-p) \div q)

RECURSIVE Gcd(_, _)
Gcd(a, b) == IF b = 0 THEN Abs(a) ELSE Gcd(b, a % b)

RECURSIVE SumLen(_)
SumLen(s) == IF s = <<>> THEN 0 ELSE Len(Head(s)) + SumLen(Tail(s))

-----------------------------------------------------------------------------
(* String helpers (JavaScript String methods on sequences of characters) *)

IsSpace(c) == c = " "

RECURSIVE TrimStart(_)
TrimStart(s) == IF s # <<>> /\ IsSpace(Head(s)) THEN TrimStart(Tail(s)) ELSE s

RECURSIVE TrimEnd(_)
TrimEnd(s) ==
    IF s # <<>> /\ IsSpace(s[Len(s)]) THEN TrimEnd(SubSeq(s, 1, Len(s) - 1)) ELSE s

\* String.prototype.trim
Trim(s) == TrimEnd(TrimStart(s))

\* text.substring(from, to) with 0 <= from <= to <= text.length
Substring(text, from, to) == SubSeq(text, from + 1, to)

\* pat occurs in text at 0-based position pos
MatchAt(text, pat, pos) ==
    /\ pos >= 0
    /\ pos + Len(pat) <= Len(text)
    /\ \A k \in 1..Len(pat) : text[pos + k] = pat[k]

\* text.indexOf(pat, from): first position >= from where pat occurs, or -1
IndexOf(text, pat, from) ==
    LET hits == {p \in Max(from, 0)..(Len(text) - Len(pat)) : MatchAt(text, pat, p)}
    IN  IF hits = {} THEN -1 ELSE CHOOSE p \in hits : \A q \in hits : p <= q

-----------------------------------------------------------------------------
(* TTSService.splitTextProportionally *)

breakChars ==
    << <<".", " ">>, <<"!", " ">>, <<"?", " ">>, <<";", " ">>, <<",", " ">>,
       <<" ">>, <<".">>, <<"!">>, <<"?">>, <<";">>, <<",">> >>

\* segment.length > 0 ? segment : ' '
NeverEmpty(segment) == IF Len(segment) > 0 THEN segment ELSE <<" ">>

\* The while loop over the occurrences of one breakChar in the search window.
\* best = <<bestBreakPos, bestBreakScore>>; bestBreakPos = -1 stands for the
\* initial bestBreakScore = Infinity.
RECURSIVE ScanBreakChar(_, _, _, _, _, _)
ScanBreakChar(text, breakChar, searchPos, searchEnd, idealEndPos, best) ==
    IF searchPos >= searchEnd THEN best
    ELSE LET pos == IndexOf(text, breakChar, searchPos) IN
         IF pos = -1 \/ pos >= searchEnd THEN best
         ELSE LET score == Abs(pos - idealEndPos) IN
              IF best[1] = -1 \/ score < best[2]
              THEN ScanBreakChar(text, breakChar, pos + 1, searchEnd, idealEndPos,
                                 <<pos + Len(breakChar), score>>)
              ELSE ScanBreakChar(text, breakChar, pos + 1, searchEnd, idealEndPos, best)

\* The for loop over breakChars, left as soon as a class gave a break whose
\* score is below searchWindow.  Returns bestBreakPos (-1: none).
RECURSIVE FindBreak(_, _, _, _, _, _, _)
FindBreak(text, c, searchStart, searchEnd, idealEndPos, searchWindow, best) ==
    IF c > Len(breakChars) THEN best[1]
    ELSE LET b == ScanBreakChar(text, breakChars[c], searchStart, searchEnd,
                                idealEndPos, best) IN
         IF b[1] # -1 /\ b[2] < searchWindow THEN b[1]
         ELSE FindBreak(text, c + 1, searchStart, searchEnd, idealEndPos,
                        searchWindow, b)

\* breakPos of iteration i (not the last), from currentPos
BreakPos(text, n, i, currentPos) ==
    LET totalChars    == Len(text)
        idealEndPos   == RoundDiv((i + 1) * totalChars, n)
        searchWindow  == totalChars \div (5 * n)
        searchStart   == Max(currentPos + 1, idealEndPos - searchWindow)
        searchEnd     == Min(totalChars - 1, idealEndPos + searchWindow)
        bestBreakPos  == FindBreak(text, 1, searchStart, searchEnd, idealEndPos,
                                   searchWindow, <<-1, 0>>)
        chosen        == IF bestBreakPos # -1 THEN bestBreakPos ELSE idealEndPos
        capped        == Min(chosen, totalChars)
    IN  IF capped <= currentPos
        THEN Min(currentPos + CeilDiv(totalChars, n), totalChars)
        ELSE capped

\* The loop with "currentPos = breakPos + 1": the character at the cut is
\* skipped.
RECURSIVE SplitLoopSkippingCut(_, _, _, _, _)
SplitLoopSkippingCut(text, n, i, currentPos, result) ==
    IF i >= n THEN result
    ELSE IF i = n - 1
         THEN SplitLoopSkippingCut(text, n, i + 1, currentPos,
                  Append(result, NeverEmpty(Trim(Substring(text, currentPos, Len(text))))))
         ELSE LET breakPos == BreakPos(text, n, i, currentPos) IN
              SplitLoopSkippingCut(text, n, i + 1, breakPos + 1,
                  Append(result, NeverEmpty(Trim(Substring(text, currentPos, breakPos)))))

RECURSIVE SplitLoop(_, _, _, _, _)
SplitLoop(text, n, i, currentPos, result) ==
    IF i >= n THEN result
    ELSE IF i = n - 1
         THEN SplitLoop(text, n, i + 1, currentPos,
                  Append(result, NeverEmpty(Trim(Substring(text, currentPos, Len(text))))))
         ELSE LET breakPos == BreakPos(text, n, i, currentPos) IN
              SplitLoop(text, n, i + 1, breakPos,
                  Append(result, NeverEmpty(Trim(Substring(text, currentPos, breakPos)))))

RECURSIVE PadTo(_, _)
PadTo(result, n) == IF Len(result) < n THEN PadTo(Append(result, <<" ">>), n) ELSE result

splitTextProportionally(text, n) ==
    IF n <= 0 THEN <<text>>
    ELSE IF n = 1 THEN <<text>>
    ELSE LET looped == SplitLoop(text, n, 0, 0, <<>>)
             padded == PadTo(looped, n)
         IN  IF Len(padded) > n THEN SubSeq(padded, 1, n) ELSE padded

-----------------------------------------------------------------------------
(* TTSService.alignTranslatedSegmentsWithTimestamps *)

Entry(text, startTime, endTime) ==
    [text |-> text, startTime |-> startTime, endTime |-> endTime]

\* Case A: translatedSegments.length === whisperSegments.length
AlignOneToOne(parts, segs) ==
    [i \in 1..Len(parts) |-> Entry(parts[i], segs[i].start, segs[i].end)]

\* whisperToTranslated[i] shifted up by one
WhisperToTranslatedShifted(i, m, r) == Min((i * m) \div r + 1, m - 1)

\* whisperToTranslated[i] (0-based i), Math.floor(i * ratio) capped
WhisperToTranslated(i, m, r) == Min((i * m) \div r, m - 1)

\* Case B: fewer translated parts than recognizer segments.  A translated
\* index that no recognizer segment maps to is skipped.
RECURSIVE AlignGrouped(_, _, _, _)
AlignGrouped(parts, segs, transIdx, acc) ==
    IF transIdx >= Len(parts) THEN acc
    ELSE LET whisperIndices ==
                 {i \in 0..(Len(segs) - 1) :
                      WhisperToTranslated(i, Len(parts), Len(segs)) = transIdx}
         IN  IF whisperIndices = {}
             THEN AlignGrouped(parts, segs, transIdx + 1, acc)
             ELSE LET first == CHOOSE i \in whisperIndices : \A j \in whisperIndices : i <= j
                      last  == CHOOSE i \in whisperIndices : \A j \in whisperIndices : i >= j
                  IN  AlignGrouped(parts, segs, transIdx + 1,
                          Append(acc, Entry(parts[transIdx + 1],
                                            segs[first + 1].start, segs[last + 1].end)))

\* Case C, first loop: part i takes the interval of recognizer segment
\* Math.min(Math.floor(i * ratio), whisperSegments.length - 1)
AlignNearest(parts, segs) ==
    [k \in 1..Len(parts) |->
        LET whisperIdx == Min(((k - 1) * Len(segs)) \div Len(parts), Len(segs) - 1)
        IN  Entry(parts[k], segs[whisperIdx + 1].start, segs[whisperIdx + 1].end)]

\* while (groupEnd < aligned.length && aligned[groupEnd].startTime < current.endTime)
RECURSIVE GroupEnd(_, _, _)
GroupEnd(al, groupEnd, currentEnd) ==
    IF groupEnd < Len(al) /\ al[groupEnd + 1].startTime < currentEnd
    THEN GroupEnd(al, groupEnd + 1, currentEnd)
    ELSE groupEnd

\* Redistribute without "cumulativeTime += duration": every entry of the run
\* starts at rangeStart.
RECURSIVE RedistributeNoAdvance(_, _, _, _, _, _)
RedistributeNoAdvance(al, j, groupEnd, cumulativeTime, rangeDuration, totalTextLength) ==
    IF j >= groupEnd THEN al
    ELSE LET duration == (rangeDuration * Len(al[j + 1].text)) \div totalTextLength
             moved    == Entry(al[j + 1].text, cumulativeTime, cumulativeTime + duration)
         IN  RedistributeNoAdvance([al EXCEPT ![j + 1] = moved], j + 1, groupEnd,
                                   cumulativeTime, rangeDuration, totalTextLength)

\* Redistribute [rangeStart, rangeStart + rangeDuration] over entries j..groupEnd-1
\* in proportion to their text lengths.
RECURSIVE Redistribute(_, _, _, _, _, _)
Redistribute(al, j, groupEnd, cumulativeTime, rangeDuration, totalTextLength) ==
    IF j >= groupEnd THEN al
    ELSE LET duration == (rangeDuration * Len(al[j + 1].text)) \div totalTextLength
             moved    == Entry(al[j + 1].text, cumulativeTime, cumulativeTime + duration)
         IN  Redistribute([al EXCEPT ![j + 1] = moved], j + 1, groupEnd,
                          cumulativeTime + duration, rangeDuration, totalTextLength)

\* Case C, second loop ("Fix overlaps by adjusting timestamps"), 0-based i
RECURSIVE FixOverlaps(_, _)
FixOverlaps(al, i) ==
    IF i >= Len(al) - 1 THEN al
    ELSE IF al[i + 2].startTime < al[i + 1].endTime
         THEN LET groupEnd == GroupEnd(al, i + 1, al[i + 1].endTime)
                  group    == SubSeq(al, i + 1, groupEnd)
                  total    == SumLen([k \in 1..Len(group) |-> group[k].text])
                  fixed    == Redistribute(al, i, groupEnd, al[i + 1].startTime,
                                  al[i + 1].endTime - al[i + 1].startTime, total)
              IN  FixOverlaps(fixed, groupEnd)
         ELSE FixOverlaps(al, i + 1)

alignTranslatedSegmentsWithTimestamps(parts, segs) ==
    IF Len(parts) = Len(segs) THEN AlignOneToOne(parts, segs)
    ELSE IF Len(parts) < Len(segs) THEN AlignGrouped(parts, segs, 0, <<>>)
    ELSE FixOverlaps(AlignNearest(parts, segs), 0)

-----------------------------------------------------------------------------
(* Exact fractions <<numerator, denominator>>, denominator > 0, for the     *)
(* floating-point quantities of the rate calibration                        *)

Frac(n, d) == LET g == Gcd(n, d) IN IF g = 0 THEN <<0, 1>> ELSE <<n \div g, d \div g>>
FracSub(x, y) ==
    LET g == Gcd(x[2], y[2])
    IN  Frac(x[1] * (y[2] \div g) - y[1] * (x[2] \div g), (x[2] \div g) * y[2])
FracAdd(x, y) ==
    LET g == Gcd(x[2], y[2])
    IN  Frac(x[1] * (y[2] \div g) + y[1] * (x[2] \div g), (x[2] \div g) * y[2])
FracMul(x, y) == Frac(x[1] * y[1], x[2] * y[2])
FracLess(x, y) == x[1] * y[2] < y[1] * x[2]

RECURSIVE FracSum(_)
FracSum(xs) == IF xs = <<>> THEN <<0, 1>> ELSE FracAdd(Head(xs), FracSum(Tail(xs)))

RECURSIVE SumOf(_)
SumOf(xs) == IF xs = <<>> THEN 0 ELSE Head(xs) + SumOf(Tail(xs))

-----------------------------------------------------------------------------
(* TTSService.synthesizeWithWhisperTimestamps: constants and pure parts *)

\* if (silenceBefore > 0.02), if (finalSilence > 0.02)
SilenceThresholdMs == 20
\* const needsStretching = difference > 0.001
StretchThresholdMs == 1
\* if (durationDiff > 0.1)
FinalAdjustThresholdMs == 100
\* const crossfadeDuration = 0.010
CrossfadeMs == 10
\* Math.min(15, ...)
MaxCalibrationSegments == 15

\* calibrationSegmentCount = Math.min(15, Math.floor(alignedSegments.length * 0.20))
calibrationSegmentCount(n) == Min(MaxCalibrationSegments, n \div 5)

\* durationRatio = avgActualDuration / avgTargetDuration
DurationRatio(samples) ==
    Frac(SumOf([k \in 1..Len(samples) |-> samples[k].actualDuration]),
         SumOf([k \in 1..Len(samples) |-> samples[k].targetDuration]))

\* rateAdjustment = (durationRatio - 1) * 100
RateAdjustment(samples) ==
    FracMul(FracSub(DurationRatio(samples), <<1, 1>>), <<100, 1>>)

\* variance: mean of (actual/target - durationRatio)^2 over the samples
Variance(samples) ==
    LET dev(k) == FracSub(Frac(samples[k].actualDuration, samples[k].targetDuration),
                          DurationRatio(samples))
    IN  FracMul(FracSum([k \in 1..Len(samples) |-> FracMul(dev(k), dev(k))]),
                <<1, Len(samples)>>)

\* stdDev < 0.3, that is variance < 0.09
StdDevBelowGate(samples) == FracLess(Variance(samples), <<9, 100>>)

\* clampedRate without the variance gate
UngatedClampedRate(samples) ==
    LET adj == RateAdjustment(samples)
    IN  IF FracLess(<<100, 1>>, adj) THEN <<100, 1>>
        ELSE IF FracLess(adj, <<-100, 1>>) THEN <<-100, 1>>
        ELSE adj

\* clampedRate without Math.max(-100, Math.min(100, ...))
UnclampedRate(samples) ==
    IF StdDevBelowGate(samples) THEN RateAdjustment(samples) ELSE <<0, 1>>

\* let clampedRate = 0; if (stdDev < 0.3) clampedRate = max(-100, min(100, rateAdjustment))
ClampedRate(samples) ==
    IF StdDevBelowGate(samples)
    THEN LET adj == RateAdjustment(samples)
         IN  IF FracLess(<<100, 1>>, adj) THEN <<100, 1>>
             ELSE IF FracLess(adj, <<-100, 1>>) THEN <<-100, 1>>
             ELSE adj
    ELSE <<0, 1>>

\* adaptiveTtsRate = clampedRate === 0 ? '+0%'
\*                 : `${clampedRate > 0 ? '+' : ''}${Math.round(clampedRate)}%`
\* The string is prefix \o ToString(num) \o "%" (Math.round gives -0, printed
\* "0", for a clampedRate in [-0.5, 0)).
RateOf(clampedRate) ==
    IF clampedRate[1] = 0 THEN [prefix |-> "+", num |-> 0]
    ELSE [prefix |-> IF clampedRate[1] > 0 THEN "+" ELSE "",
          num    |-> RoundDiv(clampedRate[1], clampedRate[2])]

RateString(rate) == rate.prefix \o ToString(rate.num) \o "%"

\* getAtempoFilter(tempo), tempo = num/den: the atempo factors, in thousandths
\* (toFixed(3))
getAtempoFilter(num, den) ==
    IF 2 * num >= den /\ num <= 2 * den THEN << RoundDiv(1000 * num, den) >>
    ELSE IF 2 * num < den THEN << 500, RoundDiv(2000 * num, den) >>
    ELSE << 2000, RoundDiv(500 * num, den) >>

\* timeStretchAudio(_, _, targetDuration, currentDuration): duration of the
\* output, the input played at the atempo factors of the clamped tempo
timeStretchAudio(targetDuration, currentDuration) ==
    LET clamped == IF 2 * currentDuration < targetDuration THEN <<1, 2>>
                   ELSE IF currentDuration > 2 * targetDuration THEN <<2, 1>>
                   ELSE <<currentDuration, targetDuration>>
        f == getAtempoFilter(clamped[1], clamped[2])
    IN  IF Len(f) = 1 THEN RoundDiv(1000 * currentDuration, f[1])
        ELSE RoundDiv(RoundDiv(1000 * currentDuration, f[1]) * 1000, f[2])

\* Duration of the concatenation: acrossfade overlaps each adjacent pair by
\* crossfadeDuration.
concatenateAudioFiles(files) ==
    SumOf([k \in 1..Len(files) |-> files[k].dur]) - CrossfadeMs * (Len(files) - 1)

Artifact(kind, seg, dur) == [kind |-> kind, seg |-> seg, dur |-> dur]

\* The placeholder test without trim(): text.length === 0
IsPlaceholderIfEmpty(text) == Len(text) = 0

\* text.trim().length === 0: the segment is a placeholder and gets silence
IsPlaceholder(text) == Len(Trim(text)) = 0

\* silenceBefore of segment i (0-based)
SilenceBefore(al, i) ==
    IF i > 0 THEN al[i + 1].startTime - al[i].endTime ELSE al[1].startTime

\* WithSilenceBefore with the threshold test dropped (silenceBefore > 0)
WithSilenceBeforeNoThreshold(files, al, i) ==
    IF SilenceBefore(al, i) > 0
    THEN Append(files, Artifact("silence", i, SilenceBefore(al, i)))
    ELSE files

\* if (silenceBefore > 0.02) push silence_i.wav
WithSilenceBefore(files, al, i) ==
    IF SilenceBefore(al, i) > SilenceThresholdMs
    THEN Append(files, Artifact("silence", i, SilenceBefore(al, i)))
    ELSE files

\* if (finalSilence > 0.02) push silence_final.wav
WithFinalSilence(files, al, dOrig) ==
    LET finalSilence == dOrig - al[Len(al)].endTime
    IN  IF finalSilence > SilenceThresholdMs
        THEN Append(files, Artifact("silence_final", Len(al), finalSilence))
        ELSE files

\* The final duration check: stretch the whole track when it is off by more
\* than 100 ms.
FinalAdjusted(concatDuration, dOrig) ==
    IF Abs(concatDuration - dOrig) > FinalAdjustThresholdMs
    THEN timeStretchAudio(dOrig, concatDuration)
    ELSE concatDuration

-----------------------------------------------------------------------------
(* TTSService.segmentTextIntelligently and the pure parts of                *)
(* synthesizeWithIntelligentSegmentation (the proportional strategy)        *)

\* if (sentence.length > 150)
LongSentenceLen == 150

\* [.!?]
SentenceEnd == {".", "!", "?"}

\* [,;:]
ClauseEnd == {",", ";", ":"}

\* Last index q >= pos - 1 such that text[pos..q] lies in chars (1-based)
RunEnd(text, pos, chars) ==
    LET ends == {q \in (pos - 1)..Len(text) : \A k \in pos..q : text[k] \in chars}
    IN  CHOOSE q \in ends : \A r \in ends : r <= q

\* text.split(/([punct]+(?:\s+|$))/) when atEnd, text.split(/([punct]+\s+)/)
\* otherwise: the pieces between the matches, each followed by its match;
\* from is the start of the current piece, pos the scanning position
SplitPieces(text, punct, atEnd) ==
    LET scan[from \in 1..(Len(text) + 1), pos \in 1..(Len(text) + 1)] ==
            IF pos > Len(text) THEN << SubSeq(text, from, Len(text)) >>
            ELSE IF text[pos] \in punct
            THEN LET q == RunEnd(text, pos, punct)
                     r == RunEnd(text, q + 1, {" "})
                 IN  IF r > q \/ (atEnd /\ q = Len(text))
                     THEN << SubSeq(text, from, pos - 1), SubSeq(text, pos, r) >>
                          \o scan[r + 1, r + 1]
                     ELSE scan[from, q + 1]
            ELSE scan[from, pos + 1]
    IN  scan[1, 1]

\* .filter(s => s.trim().length > 0).reduce(...): of the pieces left, each
\* one at an even index joined with the one after it, trimmed
CombinePairs(pieces) ==
    LET Keep(piece) == Len(Trim(piece)) > 0
        arr == SelectSeq(pieces, Keep)
    IN  [k \in 1..((Len(arr) + 1) \div 2) |->
            Trim(arr[2 * k - 1] \o (IF 2 * k <= Len(arr) THEN arr[2 * k] ELSE <<>>))]

RECURSIVE SplitLongSentences(_)
SplitLongSentences(sentences) ==
    IF sentences = <<>> THEN <<>>
    ELSE LET sentence == Head(sentences)
         IN  (IF Len(sentence) > LongSentenceLen
              THEN CombinePairs(SplitPieces(sentence, ClauseEnd, FALSE))
              ELSE << sentence >>)
             \o SplitLongSentences(Tail(sentences))

segmentTextIntelligently(text) ==
    LET NotEmpty(segment) == Len(segment) > 0
    IN  SelectSeq(SplitLongSentences(CombinePairs(SplitPieces(text, SentenceEnd, TRUE))),
                  NotEmpty)

\* targetDuration = originalDuration * segment.length / totalTextLength,
\* to the nearest millisecond
ProportionalTarget(segments, i, dOrig) ==
    RoundDiv(dOrig * Len(segments[i + 1]), SumLen(segments))

\* if (Math.abs(targetDuration - segmentDuration) / targetDuration > 0.05)
ProportionalStretched(i, target, actual) ==
    IF 20 * Abs(target - actual) > target
    THEN Artifact("stretched.wav", i, timeStretchAudio(target, actual))
    ELSE Artifact("segment.wav", i, actual)

\* if (Math.abs(finalDuration - originalDuration) / originalDuration > 0.02)
ProportionalFinal(concatDuration, dOrig) ==
    IF 50 * Abs(concatDuration - dOrig) > dOrig
    THEN timeStretchAudio(dOrig, concatDuration)
    ELSE concatDuration

\* paths.cleanupTempDir: rmSync(tempDir, { recursive: true, force: true })
cleanupTempDir(exists, files) == [exists |-> FALSE, files |-> {}]

-----------------------------------------------------------------------------
(* WhisperService: parseSRTTimestamp and the parsing of the recognizer's    *)
(* transcription entries in transcribe.  Times are in milliseconds; NaN is  *)
(* a value no parsed time can take.                                         *)

NaN == -1

IsNaN(x) == x = NaN

\* Infinity: a value above every finite time of the model.  What the code
\* does with it downstream (comparisons, x - start, originalDuration - x,
\* actual / x clamped to 0.5) has the outcome it has for IEEE Infinity.
Infinity == 1000000

\* parseInt returns Infinity for a numeral of 310 or more significant digits
\* (above Number.MAX_VALUE, about 1.8 * 10^308)
InfinityDigits == 310

Digits == << "0", "1", "2", "3", "4", "5", "6", "7", "8", "9" >>

DigitSet == {Digits[d] : d \in 1..10}

DigitChar(d) == Digits[d + 1]

DigitValue(c) == CHOOSE d \in 0..9 : Digits[d + 1] = c

RECURSIVE DecimalValue(_)
DecimalValue(digits) ==
    IF digits = << >> THEN 0
    ELSE 10 * DecimalValue(SubSeq(digits, 1, Len(digits) - 1))
         + DigitValue(digits[Len(digits)])

\* parseInt(s, 10) for s without sign: the leading digits after leading
\* white space, NaN when there are none
ParseInt(s) ==
    LET t == TrimStart(s)
        k == RunEnd(t, 1, DigitSet)
    IN  IF k = 0 THEN NaN
        ELSE IF k - RunEnd(t, 1, {"0"}) >= InfinityDigits THEN Infinity
        ELSE DecimalValue(SubSeq(t, 1, k))

\* s.split(sep) for a one-character separator
Split(s, sep) ==
    LET idx == {p \in 1..Len(s) : s[p] = sep}
        n   == Cardinality(idx)
        Pos(k) == IF k = 0 THEN 0
                  ELSE IF k = n + 1 THEN Len(s) + 1
                  ELSE CHOOSE p \in idx : Cardinality({q \in idx : q <= p}) = k
    IN  [k \in 1..(n + 1) |-> SubSeq(s, Pos(k - 1) + 1, Pos(k) - 1)]

\* s.replace(',', '.'): the first comma only
ReplaceFirstComma(s) ==
    LET idx == {p \in 1..Len(s) : s[p] = ","}
    IN  IF idx = {} THEN s
        ELSE [p \in 1..Len(s) |->
                 IF p = (CHOOSE q \in idx : \A r \in idx : q <= r) THEN "." ELSE s[p]]

\* s.padEnd(3, '0').substring(0, 3)
PadEnd3(s) == SubSeq(s \o << "0", "0", "0" >>, 1, 3)

\* parseSRTTimestamp(timestamp), in milliseconds: 0 when there are not three
\* fields, NaN when a field does not start with a digit
parseSRTTimestamp(timestamp) ==
    LET parts == Split(ReplaceFirstComma(timestamp), ":")
    IN  IF Len(parts) # 3 THEN 0
        ELSE LET hours        == ParseInt(parts[1])
                 minutes      == ParseInt(parts[2])
                 secondsParts == Split(parts[3], ".")
                 seconds      == ParseInt(secondsParts[1])
                 milliseconds == IF Len(secondsParts) > 1 /\ Len(secondsParts[2]) > 0
                                 THEN ParseInt(PadEnd3(secondsParts[2]))
                                 ELSE 0
             IN  IF IsNaN(hours) \/ IsNaN(minutes) \/ IsNaN(seconds) \/ IsNaN(milliseconds)
                 THEN NaN
                 ELSE IF Infinity \in {hours, minutes, seconds}
                 THEN Infinity
                 ELSE hours * 3600000 + minutes * 60000 + seconds * 1000 + milliseconds

\* The map callback of transcribe for one entry: NaN is only logged, and
\* start >= end (false when either is NaN) is repaired to end = start + 0.1
ParseSegment(raw) ==
    LET start == parseSRTTimestamp(raw.from)
        end   == parseSRTTimestamp(raw.to)
    IN  IF ~IsNaN(start) /\ ~IsNaN(end) /\ start >= end
        THEN [start |-> start, end |-> IF start = Infinity THEN Infinity ELSE start + 100]
        ELSE [start |-> start, end |-> end]

ParseSegments(raws) == [k \in 1..Len(raws) |-> ParseSegment(raws[k])]

\* TTSService.synthesize: whisperSegments.every(seg => numbers, not NaN)
hasValidTimestamps(segs) ==
    \A k \in 1..Len(segs) : ~IsNaN(segs[k].start) /\ ~IsNaN(segs[k].end)

-----------------------------------------------------------------------------
(* Values of the variables a specification does not use *)

DefaultRate == [prefix |-> "+", num |-> 0]

NoCancel == [phase |-> "none", seg |-> -1, calls |-> -1]

NoResult == [success |-> FALSE, error |-> "none"]

NoInput == [text |-> << >>, sourceLanguage |-> "none", targetLanguage |-> "none"]
NoTranslation == [via |-> "none", text |-> << >>]

\* null as the value of currentJobId, of result and of the socket state
NoJobId == 0
NoHookResult == [jobId |-> NoJobId, success |-> FALSE]
NoSocket == [jobId |-> -1, connected |-> FALSE]

TrIdle ==
    /\ tpc = "idle"
    /\ trInput = NoInput
    /\ attempt = 0
    /\ trLog = << >>
    /\ trResult = NoTranslation

HookIdle ==
    /\ hpc = "idle"
    /\ processing = FALSE
    /\ hookResult = NoHookResult
    /\ currentJobId = NoJobId
    /\ currentStage = "IDLE"
    /\ socket = NoSocket
    /\ effectPending = FALSE
    /\ inbox = << >>
    /\ server = "none"
    /\ response = FALSE
    /\ broadcasts = 0

ToolIdle ==
    toolFailures = {}

\* res.json / res.status(404).json of a request for the job, and whether
\* process() had resolved when the request was handled
Reply(request, status, resolved) ==
    [request |-> request, status |-> status, resolved |-> resolved]

NoReply == Reply("none", 0, FALSE)

CtlIdle ==
    /\ completeEvents = 0
    /\ lastReply = NoReply

TsIdle ==
    /\ segIdx = 0
    /\ adaptiveTtsRate = DefaultRate
    /\ calibrationSamples = <<>>
    /\ segmentAudioFiles = <<>>
    /\ ttsCalls = <<>>
    /\ finalDuration = -1

JobIdle ==
    /\ strategy = "none"
    /\ strategiesRun = <<>>
    /\ failedStrategies = {}
    /\ vpc = "idle"
    /\ cancelled = FALSE
    /\ cancelSeen = NoCancel
    /\ active = FALSE
    /\ tempDirExists = FALSE
    /\ tempFiles = {}
    /\ progress = <<>>
    /\ jobResult = NoResult

-----------------------------------------------------------------------------
(* SpecSplit: splitTextProportionally applied to every text over Alphabet   *)
(* of length <= MaxTextLen, to every text of LongTextLen letters whose       *)
(* search window around the middle is drawn from Alphabet, and every count   *)
(* in 1..MaxCount                                                            *)

\* The texts of LongTextLen characters that are letters outside the search
\* window of the cut in two (idealEndPos +- searchWindow) and any characters
\* of Alphabet inside it
LongTexts ==
    LET mid    == RoundDiv(LongTextLen, 2)
        window == LongTextLen \div 10
    IN  { [j \in 1..LongTextLen |->
              IF j \in (mid - window + 1)..(mid + window)
              THEN w[j - (mid - window)] ELSE "a"] :
          w \in [1..(2 * window) -> Alphabet] }

Texts == UNION {[1..n -> Alphabet] : n \in 0..MaxTextLen} \cup LongTexts

InitSplit ==
    /\ TrIdle
    /\ HookIdle
    /\ ToolIdle
    /\ CtlIdle
    /\ phase = "split:input"
    /\ translatedText \in Texts
    /\ targetSegmentCount \in 1..MaxCount
    /\ translatedSegments = <<>>
    /\ rawSegments = <<>>
    /\ whisperSegments = <<>>
    /\ alignedSegments = <<>>
    /\ originalDuration = 0
    /\ TsIdle
    /\ JobIdle

SplitText ==
    /\ UNCHANGED trVars
    /\ UNCHANGED hookVars
    /\ UNCHANGED toolVars
    /\ UNCHANGED ctlVars
    /\ phase = "split:input"
    /\ phase' = "split:done"
    /\ translatedSegments' = splitTextProportionally(translatedText, targetSegmentCount)
    /\ UNCHANGED << translatedText, targetSegmentCount, rawSegments, whisperSegments,
                    alignedSegments, originalDuration, tsVars, jobVars >>

NextSplit == SplitText

SpecSplit == InitSplit /\ [][NextSplit]_vars

-----------------------------------------------------------------------------
(* SpecAlign: the aligner applied to every list of 1..MaxParts non-empty    *)
(* parts and every recognizer list of 1..MaxWhisper intervals, ordered by   *)
(* start, overlapping or not.  Recognizer times are multiples of TimeUnit,  *)
(* which every possible total text length of a run divides, so that the     *)
(* proportional shares of the overlap repair are whole numbers.             *)

RECURSIVE LcmUpTo(_)
LcmUpTo(n) == IF n <= 1 THEN 1
              ELSE LET l == LcmUpTo(n - 1) IN (l * n) \div Gcd(l, n)

TimeUnit == LcmUpTo(MaxParts * MaxPartLen)

PartTexts == {<<" ">>} \cup {[k \in 1..n |-> "a"] : n \in 1..MaxPartLen}

PartLists == UNION {[1..m -> PartTexts] : m \in 1..MaxParts}

Intervals ==
    {iv \in {[start |-> a * TimeUnit, end |-> b * TimeUnit] :
                a \in 0..MaxTime, b \in 0..MaxTime} : iv.start < iv.end}

\* WhisperService.transcribe gives every segment end > start; the recognizer
\* emits segments in order of start, and they may overlap.
WhisperLists ==
    {w \in UNION {[1..r -> Intervals] : r \in 1..MaxWhisper} :
        \A i \in 2..Len(w) : w[i].start >= w[i - 1].start}

InitAlign ==
    /\ TrIdle
    /\ HookIdle
    /\ ToolIdle
    /\ CtlIdle
    /\ phase = "align:input"
    /\ translatedText = <<>>
    /\ targetSegmentCount = 0
    /\ translatedSegments \in PartLists
    /\ rawSegments = <<>>
    /\ whisperSegments \in WhisperLists
    /\ alignedSegments = <<>>
    /\ originalDuration = 0
    /\ TsIdle
    /\ JobIdle

AlignSegments ==
    /\ UNCHANGED trVars
    /\ UNCHANGED hookVars
    /\ UNCHANGED toolVars
    /\ UNCHANGED ctlVars
    /\ phase = "align:input"
    /\ phase' = "align:done"
    /\ alignedSegments' =
           alignTranslatedSegmentsWithTimestamps(translatedSegments, whisperSegments)
    /\ UNCHANGED << translatedText, targetSegmentCount, translatedSegments,
                    rawSegments, whisperSegments, originalDuration, tsVars, jobVars >>

NextAlign == AlignSegments

SpecAlign == InitAlign /\ [][NextAlign]_vars

-----------------------------------------------------------------------------
(* TTSService.synthesizeWithWhisperTimestamps, one action per step between  *)
(* two awaits that matter: the start (duration probe, split, align), the    *)
(* part of an iteration up to the synthesizer call, the part after it, and  *)
(* the assembly after the loop.                                             *)

\* the rate when the calibration runs at every index from K on
RateForSegmentFromK(i, K, samples, rate) ==
    IF i >= K /\ Len(samples) > 0 THEN RateOf(ClampedRate(samples)) ELSE rate

\* if (i === calibrationSegmentCount && calibrationSamples.length > 0)
\*     adaptiveTtsRate = ...: the rate used from segment i on
RateForSegment(i, K, samples, rate) ==
    IF i = K /\ Len(samples) > 0 THEN RateOf(ClampedRate(samples)) ELSE rate

\* ts_stretched_<i>.wav: the output of timeStretchAudio, with the duration of
\* the file it was made from
StretchedArtifact(i, targetDuration, currentDuration) ==
    [kind |-> "ts_stretched.wav", seg |-> i,
     dur |-> timeStretchAudio(targetDuration, currentDuration),
     input |-> currentDuration]

\* Durations the duration probe may report for a synthesized segment
ActualDurations == {400, 1000, 2500}

\* Further durations it may report during the calibration phase: just below
\* and just above a target of one second
CalibrationDurations == {996, 1004}

\* Durations it may report after the calibration phase of a calibrated job
SettledDurations == {1000, 2500}

\* The durations drawn for segment i of n: all of them in a job without
\* calibration phase
DurationsFor(i, n) ==
    IF calibrationSegmentCount(n) = 0 THEN ActualDurations
    ELSE IF i < calibrationSegmentCount(n) THEN ActualDurations \cup CalibrationDurations
    ELSE SettledDurations

FileOf(a) == <<a.kind, a.seg>>

FilesOf(queue) == {FileOf(queue[k]) : k \in 1..Len(queue)}

TsStart ==
    /\ UNCHANGED trVars
    /\ UNCHANGED hookVars
    /\ UNCHANGED toolVars
    /\ UNCHANGED ctlVars
    /\ phase = "ts:start"
    /\ translatedSegments' = splitTextProportionally(translatedText, Len(whisperSegments))
    /\ alignedSegments' =
           alignTranslatedSegmentsWithTimestamps(translatedSegments', whisperSegments)
    /\ segIdx' = 0
    /\ adaptiveTtsRate' = DefaultRate
    /\ calibrationSamples' = <<>>
    /\ segmentAudioFiles' = <<>>
    /\ phase' = "ts:loop"
    /\ UNCHANGED << translatedText, targetSegmentCount, rawSegments, whisperSegments,
                    originalDuration, ttsCalls, finalDuration, jobVars >>

\* Iteration i up to "continue" (placeholder) or up to the synthesizer call
TsSegmentBegin ==
    /\ UNCHANGED trVars
    /\ UNCHANGED hookVars
    /\ UNCHANGED toolVars
    /\ UNCHANGED ctlVars
    /\ phase = "ts:loop"
    /\ segIdx < Len(alignedSegments)
    /\ LET i      == segIdx
           seg    == alignedSegments[i + 1]
           target == seg.endTime - seg.startTime
           queued == WithSilenceBefore(segmentAudioFiles, alignedSegments, i)
           K      == calibrationSegmentCount(Len(alignedSegments))
       IN  \/ /\ IsPlaceholder(seg.text)
              /\ segmentAudioFiles' = Append(queued, Artifact("placeholder", i, target))
              /\ tempFiles' = tempFiles \cup FilesOf(segmentAudioFiles')
              /\ segIdx' = i + 1
              /\ UNCHANGED << phase, adaptiveTtsRate, ttsCalls >>
           \/ /\ ~IsPlaceholder(seg.text)
              /\ segmentAudioFiles' = queued
              /\ adaptiveTtsRate' = RateForSegment(i, K, calibrationSamples, adaptiveTtsRate)
              /\ ttsCalls' = Append(ttsCalls,
                     [strategy |-> "timestamp", seg |-> i, rate |-> adaptiveTtsRate'])
              /\ tempFiles' = tempFiles \cup FilesOf(queued) \cup {<<"ts_segment.mp3", i>>}
              /\ phase' = "ts:tts"
              /\ UNCHANGED segIdx
    /\ UNCHANGED << translatedText, targetSegmentCount, translatedSegments,
                    rawSegments, whisperSegments, alignedSegments, originalDuration,
                    calibrationSamples, finalDuration, strategy, strategiesRun,
                    failedStrategies, vpc, cancelled, cancelSeen, active,
                    tempDirExists, progress, jobResult >>

\* The synthesizer answered: convert, probe, sample, stretch, enqueue
TsSegmentEnd ==
    /\ UNCHANGED trVars
    /\ UNCHANGED hookVars
    /\ UNCHANGED toolVars
    /\ UNCHANGED ctlVars
    /\ phase = "ts:tts"
    /\ \E actualDuration \in DurationsFor(segIdx, Len(alignedSegments)) :
         LET i      == segIdx
             seg    == alignedSegments[i + 1]
             target == seg.endTime - seg.startTime
             K      == calibrationSegmentCount(Len(alignedSegments))
             needsStretching == Abs(target - actualDuration) > StretchThresholdMs
             artifact ==
                 IF needsStretching
                 THEN StretchedArtifact(i, target, actualDuration)
                 ELSE Artifact("ts_segment.wav", i, actualDuration)
         IN  /\ calibrationSamples' =
                    IF i < K
                    THEN Append(calibrationSamples,
                             [targetDuration |-> target, actualDuration |-> actualDuration])
                    ELSE calibrationSamples
             /\ segmentAudioFiles' = Append(segmentAudioFiles, artifact)
             /\ tempFiles' = (tempFiles \ {<<"ts_segment.mp3", i>>}) \cup {FileOf(artifact)}
             /\ segIdx' = i + 1
    /\ phase' = "ts:loop"
    /\ UNCHANGED << translatedText, targetSegmentCount, translatedSegments,
                    rawSegments, whisperSegments, alignedSegments, originalDuration,
                    adaptiveTtsRate, ttsCalls, finalDuration, jobVars2 >>

\* The synthesizer call failed (stream error, missing or empty file): the
\* error leaves synthesizeWithWhisperTimestamps, files stay behind
TsSegmentFail ==
    /\ UNCHANGED trVars
    /\ UNCHANGED hookVars
    /\ UNCHANGED toolVars
    /\ UNCHANGED ctlVars
    /\ phase = "ts:tts"
    /\ phase' = "ts:threw"
    /\ UNCHANGED << translatedText, targetSegmentCount, translatedSegments,
                    rawSegments, whisperSegments, alignedSegments, originalDuration, tsVars,
                    jobVars >>

\* The audio-toolkit operations synthesizeWithWhisperTimestamps is about to
\* await in this phase; each is a promise that rejects when ffmpeg or
\* ffprobe reports an error
ToolOperationsDue ==
    IF phase = "ts:start" THEN {"getAudioDuration"}
    ELSE IF phase = "ts:tts" THEN {"convertToWav", "getAudioDuration", "timeStretchAudio"}
    ELSE IF phase = "ts:loop" /\ segIdx = Len(alignedSegments)
         THEN {"concatenateAudioFiles", "getAudioDuration"}
              \cup (IF WithFinalSilence(segmentAudioFiles, alignedSegments, originalDuration)
                         # segmentAudioFiles
                    THEN {"generateSilence"} ELSE {})
    ELSE IF phase = "ts:loop" /\ segIdx < Len(alignedSegments)
         THEN IF \/ WithSilenceBefore(segmentAudioFiles, alignedSegments, segIdx)
                        # segmentAudioFiles
                 \/ IsPlaceholder(alignedSegments[segIdx + 1].text)
              THEN {"generateSilence"} ELSE {}
    ELSE {}

\* One of them rejects: the error leaves synthesizeWithWhisperTimestamps
\* like any other and reaches the catch of synthesize()
TsAudioToolFail ==
    /\ UNCHANGED trVars
    /\ UNCHANGED hookVars
    /\ UNCHANGED ctlVars
    /\ vpc = "synthesize"
    /\ \E op \in ToolOperationsDue : toolFailures' = toolFailures \cup {op}
    /\ phase' = "ts:threw"
    /\ UNCHANGED << translatedText, targetSegmentCount, translatedSegments,
                    rawSegments, whisperSegments, alignedSegments, originalDuration, tsVars,
                    jobVars >>

\* After the loop: final silence, concatenation, final duration check,
\* removal of the segment files
TsFinalize ==
    /\ UNCHANGED trVars
    /\ UNCHANGED hookVars
    /\ UNCHANGED toolVars
    /\ UNCHANGED ctlVars
    /\ phase = "ts:loop"
    /\ segIdx = Len(alignedSegments)
    /\ segmentAudioFiles' =
           WithFinalSilence(segmentAudioFiles, alignedSegments, originalDuration)
    /\ finalDuration' =
           FinalAdjusted(concatenateAudioFiles(segmentAudioFiles'), originalDuration)
    /\ tempFiles' = (tempFiles \ FilesOf(segmentAudioFiles')) \cup {<<"tts_audio.wav", 0>>}
    /\ phase' = "ts:done"
    /\ UNCHANGED << translatedText, targetSegmentCount, translatedSegments,
                    rawSegments, whisperSegments, alignedSegments, originalDuration, segIdx,
                    adaptiveTtsRate, calibrationSamples, ttsCalls, jobVars2 >>

-----------------------------------------------------------------------------
(* SpecTs: synthesizeWithWhisperTimestamps on recognizer lists of           *)
(* 1..MaxSmallSegments segments with varied first start, gaps (negative:    *)
(* overlap), durations and end of the audio, and on plain contiguous lists  *)
(* of MaxSegments \div 2 and MaxSegments segments for the rate calibration  *)

\* n segments: durations d1, d2, d1, ... separated by gap g, the first at s0
PatternList(n, s0, d1, d2, g) ==
    [i \in 1..n |->
        LET start == s0 + ((i - 1) \div 2) * (d1 + d2 + 2 * g) + ((i - 1) % 2) * (d1 + g)
            dur   == IF i % 2 = 1 THEN d1 ELSE d2
        IN  [start |-> start, end |-> start + dur]]

Letters(k) == [j \in 1..k |-> "a"]

\* a whitespace-only text of k characters
Blanks(k) == [j \in 1..k |-> " "]

\* k letters with blanks at the positions from..to
GapText(k, from, to) == [j \in 1..k |-> IF j \in from..to THEN " " ELSE "a"]

SmallInputs ==
    {[w |-> PatternList(n, s0, d1, d2, g), tail |-> tail, text |-> text] :
        n \in 1..MaxSmallSegments, s0 \in {0, 10, 21}, d1 \in {10, 1000},
        d2 \in {10, 1000}, g \in {-200, 0, 10, 500}, tail \in {-500, 10, 300},
        text \in {<<>>, Blanks(2), Letters(2), Letters(2 * MaxSmallSegments)}}

LargeInputs ==
    {[w |-> PatternList(n, 0, 1000, d2, 0), tail |-> 0, text |-> text] :
        n \in {MaxSegments \div 2, MaxSegments}, d2 \in {500, 1000},
        text \in {<<>>, Letters(2 * MaxSegments), GapText(2 * MaxSegments, 3, 4),
                   GapText(2 * MaxSegments, 5, 8)}}

\* Recognizer lists are ordered by start and the audio has a positive length
TsInputs ==
    {x \in SmallInputs \cup LargeInputs :
        /\ \A i \in 2..Len(x.w) : x.w[i].start >= x.w[i - 1].start
        /\ x.w[Len(x.w)].end + x.tail > 0}

InitTs ==
    /\ TrIdle
    /\ HookIdle
    /\ ToolIdle
    /\ CtlIdle
    /\ phase = "ts:start"
    /\ rawSegments = <<>>
    /\ \E x \in TsInputs :
          /\ whisperSegments = x.w
          /\ translatedText = x.text
          /\ originalDuration = x.w[Len(x.w)].end + x.tail
    /\ targetSegmentCount = 0
    /\ translatedSegments = <<>>
    /\ alignedSegments = <<>>
    /\ TsIdle
    /\ strategy = "timestamp"
    /\ strategiesRun = <<"timestamp">>
    /\ failedStrategies = {}
    /\ vpc = "idle"
    /\ cancelled = FALSE
    /\ cancelSeen = NoCancel
    /\ active = FALSE
    /\ tempDirExists = TRUE
    /\ tempFiles = {}
    /\ progress = <<>>
    /\ jobResult = NoResult

NextTs ==
    \/ TsStart
    \/ TsSegmentBegin
    \/ TsSegmentEnd
    \/ TsSegmentFail
    \/ TsFinalize

SpecTs == InitTs /\ [][NextTs]_vars

-----------------------------------------------------------------------------
(* Spec: one job through ProcessController.processVideo,                    *)
(* VideoProcessor.process and TTSService.synthesize, with                   *)
(* ProcessController.cancelProcess arriving at any await.  One action per   *)
(* awaited stage; what runs between two awaits is one step.                 *)

\* The lookup with the test dropped: every job id is answered as found
JobFoundAlways(isActive) == TRUE

\* activeProcessors.get(jobId) is defined
JobFound(isActive) == isActive

CancelledMessage == "Process cancelled by user"

\* The catch block of process() followed by the controller's .then: emit
\* ERROR 0 after what the stage had emitted, clean up, resolve
Fail(emitted, message) ==
    /\ progress' = progress \o emitted \o << 0 >>
    /\ tempDirExists' = cleanupTempDir(tempDirExists, tempFiles).exists
    /\ tempFiles' = cleanupTempDir(tempDirExists, tempFiles).files
    /\ jobResult' = [success |-> FALSE, error |-> message]
    /\ vpc' = "resolved"
    /\ active' = FALSE
    /\ completeEvents' = completeEvents + 1
    /\ phase' = "none"

\* A stage returned: emit its closing percentage, look at the cancelled
\* flag, and enter the next stage (which emits its opening percentage)
StageReturned(closing, opening, next, files) ==
    IF cancelled
    THEN Fail(<< closing >>, CancelledMessage)
    ELSE /\ progress' = progress \o << closing, opening >>
         /\ tempFiles' = tempFiles \cup files
         /\ vpc' = next
         /\ UNCHANGED << tempDirExists, jobResult, active, completeEvents >>

\* processVideo: register the processor and run process() up to its first
\* await; createJobTempDir may throw before or after the directory is made,
\* and then this.tempPaths is still null in the catch block
ProcessVideo ==
    /\ UNCHANGED trVars
    /\ UNCHANGED hookVars
    /\ UNCHANGED toolVars
    /\ lastReply' = Reply("process", 200, FALSE)
    /\ vpc = "idle"
    /\ \/ /\ active' = TRUE
          /\ tempDirExists' = TRUE
          /\ progress' = << 5 >>
          /\ vpc' = "download"
          /\ UNCHANGED << jobResult, completeEvents >>
       \/ /\ \E made \in BOOLEAN : tempDirExists' = made
          /\ progress' = << 0 >>
          /\ jobResult' = [success |-> FALSE, error |-> "createJobTempDir"]
          /\ vpc' = "resolved"
          /\ active' = FALSE
          /\ completeEvents' = completeEvents + 1
    /\ UNCHANGED << phase, translatedText, targetSegmentCount, translatedSegments,
                    rawSegments, whisperSegments, alignedSegments, originalDuration, tsVars,
                    strategy, strategiesRun, failedStrategies, cancelled,
                    cancelSeen, tempFiles >>

DownloadDone ==
    /\ UNCHANGED trVars
    /\ UNCHANGED hookVars
    /\ UNCHANGED toolVars
    /\ UNCHANGED lastReply
    /\ vpc = "download"
    /\ \/ /\ StageReturned(15, 20, "extract", {<< "video", 0 >>})
          /\ IF cancelled THEN TRUE ELSE UNCHANGED phase
       \/ Fail(<< >>, "YouTube download failed")
    /\ UNCHANGED << translatedText, targetSegmentCount, translatedSegments,
                    rawSegments, whisperSegments, alignedSegments, originalDuration, tsVars,
                    strategy, strategiesRun, failedStrategies, cancelled, cancelSeen >>

ExtractDone ==
    /\ UNCHANGED trVars
    /\ UNCHANGED hookVars
    /\ UNCHANGED toolVars
    /\ UNCHANGED lastReply
    /\ vpc = "extract"
    /\ \/ /\ StageReturned(30, 35, "transcribe", {<< "audio.wav", 0 >>})
          /\ IF cancelled THEN TRUE ELSE UNCHANGED phase
       \/ Fail(<< >>, "Audio extraction failed")
    /\ UNCHANGED << translatedText, targetSegmentCount, translatedSegments,
                    rawSegments, whisperSegments, alignedSegments, originalDuration, tsVars,
                    strategy, strategiesRun, failedStrategies, cancelled, cancelSeen >>

\* "00:00:0k,000"
Stamp(k) == << "0", "0", ":", "0", "0", ":", "0", DigitChar(k), ",", "0", "0", "0" >>

\* What the recognizer may write for a job: no transcription entries, or
\* 1..MaxJobSegments contiguous entries of one second whose last end stamp
\* is well formed, has two fields ("00:0k,000"), has a field that is not a
\* number ("00:00:xx,000") or has an hours field of InfinityDigits nines
RawResults ==
    {[k \in 1..n |->
        [from |-> Stamp(k - 1),
         to   |-> IF k < n \/ bad = "none" THEN Stamp(k)
                  ELSE IF bad = "fields" THEN SubSeq(Stamp(k), 4, 12)
                  ELSE IF bad = "digits"
                  THEN [p \in 1..12 |-> IF p \in {7, 8} THEN "x" ELSE Stamp(k)[p]]
                  ELSE [p \in 1..InfinityDigits |-> "9"] \o SubSeq(Stamp(k), 3, 12)]] :
        n \in 0..MaxJobSegments, bad \in {"none", "fields", "digits", "overflow"}}

\* What WhisperService.transcribe may return: a failure, or the segments
\* parsed from the recognizer's output
TranscribeResults ==
    {[success |-> FALSE, raw |-> << >>]}
    \cup {[success |-> TRUE, raw |-> raw] : raw \in RawResults}

\* Length of the extracted audio: the recognizer's entries cover it
AudioDuration(result) ==
    IF Len(result.raw) = 0 THEN 1000 ELSE 1000 * Len(result.raw)

TranscribeDone ==
    /\ UNCHANGED trVars
    /\ UNCHANGED hookVars
    /\ UNCHANGED toolVars
    /\ UNCHANGED lastReply
    /\ vpc = "transcribe"
    /\ \E result \in TranscribeResults :
          IF cancelled THEN
              /\ Fail(<< 55 >>, CancelledMessage)
              /\ UNCHANGED << rawSegments, whisperSegments, originalDuration >>
          ELSE IF ~result.success THEN
              /\ Fail(<< 55 >>, "Transcription failed")
              /\ UNCHANGED << rawSegments, whisperSegments, originalDuration >>
          ELSE
              /\ rawSegments' = result.raw
              /\ whisperSegments' = ParseSegments(result.raw)
              /\ originalDuration' = AudioDuration(result)
              /\ progress' = progress \o << 55, 60 >>
              /\ vpc' = "translate"
              /\ UNCHANGED << phase, tempDirExists, tempFiles, jobResult, active,
                              completeEvents >>
    /\ UNCHANGED << translatedText, targetSegmentCount, translatedSegments,
                    alignedSegments, tsVars, strategy, strategiesRun,
                    failedStrategies, cancelled, cancelSeen >>

\* Translations: one sentence without punctuation, two sentences
JobTexts == {Letters(2), << "a", ".", " ", "a", "." >>}

\* translate() never throws; synthesizeSpeech then runs synthesize() up to the
\* first await of the strategy it selects
TranslateDone ==
    /\ UNCHANGED trVars
    /\ UNCHANGED hookVars
    /\ UNCHANGED toolVars
    /\ UNCHANGED lastReply
    /\ vpc = "translate"
    /\ \E text \in JobTexts :
          IF cancelled THEN
              /\ Fail(<< 70 >>, CancelledMessage)
              /\ UNCHANGED << translatedText, strategy, strategiesRun >>
          ELSE
              /\ translatedText' = text
              /\ progress' = progress \o << 70, 75 >>
              /\ vpc' = "synthesize"
              /\ strategy' = IF Len(whisperSegments) > 0 /\ hasValidTimestamps(whisperSegments)
                             THEN "timestamp" ELSE "proportional"
              /\ strategiesRun' = << strategy' >>
              /\ phase' = IF strategy' = "timestamp" THEN "ts:start" ELSE "prop:start"
              /\ UNCHANGED << tempDirExists, tempFiles, jobResult, active,
                              completeEvents >>
    /\ UNCHANGED << targetSegmentCount, translatedSegments, rawSegments, whisperSegments,
                    alignedSegments, originalDuration, tsVars, failedStrategies,
                    cancelled, cancelSeen >>

\* synthesize(): the catch around synthesizeWithWhisperTimestamps starts
\* synthesizeWithIntelligentSegmentation
SynthCatchTs ==
    /\ UNCHANGED trVars
    /\ UNCHANGED hookVars
    /\ UNCHANGED toolVars
    /\ UNCHANGED ctlVars
    /\ vpc = "synthesize"
    /\ phase = "ts:threw"
    /\ strategy' = "proportional"
    /\ strategiesRun' = Append(strategiesRun, "proportional")
    /\ failedStrategies' = failedStrategies \cup {"timestamp"}
    /\ phase' = "prop:start"
    /\ UNCHANGED << translatedText, targetSegmentCount, translatedSegments,
                    rawSegments, whisperSegments, alignedSegments, originalDuration, tsVars,
                    vpc, cancelled, cancelSeen, active, tempDirExists,
                    tempFiles, progress, jobResult >>

\* synthesizeWithIntelligentSegmentation up to its loop
PropStart ==
    /\ UNCHANGED trVars
    /\ UNCHANGED hookVars
    /\ UNCHANGED toolVars
    /\ UNCHANGED ctlVars
    /\ phase = "prop:start"
    /\ translatedSegments' = segmentTextIntelligently(translatedText)
    /\ segIdx' = 0
    /\ segmentAudioFiles' = << >>
    /\ phase' = "prop:loop"
    /\ UNCHANGED << translatedText, targetSegmentCount, rawSegments, whisperSegments,
                    alignedSegments, originalDuration, adaptiveTtsRate,
                    calibrationSamples, ttsCalls, finalDuration, jobVars >>

\* Iteration i up to the synthesizer call
PropSegmentBegin ==
    /\ UNCHANGED trVars
    /\ UNCHANGED hookVars
    /\ UNCHANGED toolVars
    /\ UNCHANGED ctlVars
    /\ phase = "prop:loop"
    /\ segIdx < Len(translatedSegments)
    /\ ttsCalls' = Append(ttsCalls,
           [strategy |-> "proportional", seg |-> segIdx, rate |-> DefaultRate])
    /\ tempFiles' = tempFiles \cup {<< "segment.mp3", segIdx >>}
    /\ phase' = "prop:tts"
    /\ UNCHANGED << translatedText, targetSegmentCount, translatedSegments,
                    rawSegments, whisperSegments, alignedSegments, originalDuration, segIdx,
                    adaptiveTtsRate, calibrationSamples, segmentAudioFiles,
                    finalDuration, jobVars2 >>

\* The synthesizer answered: convert, probe, stretch, enqueue
PropSegmentEnd ==
    /\ UNCHANGED trVars
    /\ UNCHANGED hookVars
    /\ UNCHANGED toolVars
    /\ UNCHANGED ctlVars
    /\ phase = "prop:tts"
    /\ \E segmentDuration \in ActualDurations :
         LET target   == ProportionalTarget(translatedSegments, segIdx, originalDuration)
             artifact == ProportionalStretched(segIdx, target, segmentDuration)
         IN  /\ segmentAudioFiles' = Append(segmentAudioFiles, artifact)
             /\ tempFiles' = (tempFiles \ {<< "segment.mp3", segIdx >>})
                             \cup {FileOf(artifact)}
    /\ segIdx' = segIdx + 1
    /\ phase' = "prop:loop"
    /\ UNCHANGED << translatedText, targetSegmentCount, translatedSegments,
                    rawSegments, whisperSegments, alignedSegments, originalDuration,
                    adaptiveTtsRate, calibrationSamples, ttsCalls,
                    finalDuration, jobVars2 >>

\* The synthesizer call failed
PropSegmentFail ==
    /\ UNCHANGED trVars
    /\ UNCHANGED hookVars
    /\ UNCHANGED toolVars
    /\ UNCHANGED ctlVars
    /\ phase = "prop:tts"
    /\ phase' = "prop:threw"
    /\ UNCHANGED << translatedText, targetSegmentCount, translatedSegments,
                    rawSegments, whisperSegments, alignedSegments, originalDuration, tsVars,
                    jobVars >>

\* After the loop: concatenation (which fails on an empty list), final
\* duration check, removal of the segment files
PropFinalize ==
    /\ UNCHANGED trVars
    /\ UNCHANGED hookVars
    /\ UNCHANGED toolVars
    /\ UNCHANGED ctlVars
    /\ phase = "prop:loop"
    /\ segIdx = Len(translatedSegments)
    /\ IF Len(segmentAudioFiles) = 0
       THEN /\ phase' = "prop:threw"
            /\ UNCHANGED << finalDuration, tempFiles >>
       ELSE /\ finalDuration' =
                   ProportionalFinal(concatenateAudioFiles(segmentAudioFiles), originalDuration)
            /\ tempFiles' = (tempFiles \ FilesOf(segmentAudioFiles))
                            \cup {<< "tts_audio.wav", 0 >>}
            /\ phase' = "prop:done"
    /\ UNCHANGED << translatedText, targetSegmentCount, translatedSegments,
                    rawSegments, whisperSegments, alignedSegments, originalDuration, segIdx,
                    adaptiveTtsRate, calibrationSamples, segmentAudioFiles,
                    ttsCalls, jobVars2 >>

\* synthesize(): an error of synthesizeWithIntelligentSegmentation reaches the
\* outer catch, is rethrown as "TTS synthesis failed" and ends process()
SynthThrow ==
    /\ UNCHANGED trVars
    /\ UNCHANGED hookVars
    /\ UNCHANGED toolVars
    /\ UNCHANGED lastReply
    /\ vpc = "synthesize"
    /\ phase = "prop:threw"
    /\ failedStrategies' = failedStrategies \cup {"proportional"}
    /\ Fail(<< >>, "TTS synthesis failed")
    /\ UNCHANGED << translatedText, targetSegmentCount, translatedSegments,
                    rawSegments, whisperSegments, alignedSegments, originalDuration, tsVars,
                    strategy, strategiesRun, cancelled, cancelSeen >>

\* synthesize() returned the output path
SynthReturn ==
    /\ UNCHANGED trVars
    /\ UNCHANGED hookVars
    /\ UNCHANGED toolVars
    /\ UNCHANGED lastReply
    /\ vpc = "synthesize"
    /\ phase \in {"ts:done", "prop:done"}
    /\ StageReturned(85, 90, "remux", {})
    /\ phase' = "none"
    /\ UNCHANGED << translatedText, targetSegmentCount, translatedSegments,
                    rawSegments, whisperSegments, alignedSegments, originalDuration, tsVars,
                    strategy, strategiesRun, failedStrategies, cancelled,
                    cancelSeen >>

RemuxDone ==
    /\ UNCHANGED trVars
    /\ UNCHANGED hookVars
    /\ UNCHANGED toolVars
    /\ UNCHANGED lastReply
    /\ vpc = "remux"
    /\ \/ IF cancelled
          THEN Fail(<< 98 >>, CancelledMessage)
          ELSE /\ progress' = progress \o << 98, 100 >>
               /\ tempDirExists' = cleanupTempDir(tempDirExists, tempFiles).exists
               /\ tempFiles' = cleanupTempDir(tempDirExists, tempFiles).files
               /\ jobResult' = [success |-> TRUE, error |-> ""]
               /\ vpc' = "resolved"
               /\ active' = FALSE
               /\ completeEvents' = completeEvents + 1
               /\ UNCHANGED phase
       \/ Fail(<< >>, "Video remux failed")
    /\ UNCHANGED << translatedText, targetSegmentCount, translatedSegments,
                    rawSegments, whisperSegments, alignedSegments, originalDuration, tsVars,
                    strategy, strategiesRun, failedStrategies, cancelled,
                    cancelSeen >>

\* The synthesizer never answers: neither 'finish' nor 'error' is ever
\* emitted, and the promise awaited by the call has no deadline
SynthesizerSilent ==
    /\ UNCHANGED trVars
    /\ UNCHANGED hookVars
    /\ UNCHANGED toolVars
    /\ UNCHANGED ctlVars
    /\ phase \in {"ts:tts", "prop:tts"}
    /\ phase' = "tts:pending forever"
    /\ UNCHANGED << translatedText, targetSegmentCount, translatedSegments,
                    rawSegments, whisperSegments, alignedSegments, originalDuration, tsVars,
                    jobVars >>

\* ProcessController.cancelProcess: the job is in activeProcessors, cancel()
\* sets the flag and emits ERROR 0, the job leaves activeProcessors
CancelProcess ==
    /\ UNCHANGED trVars
    /\ UNCHANGED hookVars
    /\ UNCHANGED toolVars
    /\ UNCHANGED completeEvents
    /\ lastReply' = Reply("cancel", 200, vpc = "resolved")
    /\ JobFound(active)
    /\ cancelled' = TRUE
    /\ progress' = Append(progress, 0)
    /\ active' = FALSE
    /\ cancelSeen' = [phase |-> phase, seg |-> segIdx, calls |-> Len(ttsCalls)]
    /\ UNCHANGED << phase, translatedText, targetSegmentCount, translatedSegments,
                    rawSegments, whisperSegments, alignedSegments, originalDuration, tsVars,
                    strategy, strategiesRun, failedStrategies, vpc,
                    tempDirExists, tempFiles, jobResult >>

\* ProcessController.cancelProcess for a job that is not in activeProcessors
\* (cancelled before, or process() has resolved): 404
CancelUnknown ==
    /\ UNCHANGED trVars
    /\ UNCHANGED hookVars
    /\ UNCHANGED toolVars
    /\ vpc # "idle"
    /\ ~JobFound(active)
    /\ lastReply' = Reply("cancel", 404, vpc = "resolved")
    /\ UNCHANGED << phase, translatedText, targetSegmentCount, translatedSegments,
                    rawSegments, whisperSegments, alignedSegments, originalDuration, tsVars,
                    jobVars, completeEvents >>

\* ProcessController.getStatus
GetStatus ==
    /\ UNCHANGED trVars
    /\ UNCHANGED hookVars
    /\ UNCHANGED toolVars
    /\ vpc # "idle"
    /\ lastReply' = Reply("status", IF JobFound(active) THEN 200 ELSE 404, vpc = "resolved")
    /\ UNCHANGED << phase, translatedText, targetSegmentCount, translatedSegments,
                    rawSegments, whisperSegments, alignedSegments, originalDuration, tsVars,
                    jobVars, completeEvents >>

Init ==
    /\ TrIdle
    /\ HookIdle
    /\ ToolIdle
    /\ CtlIdle
    /\ phase = "none"
    /\ translatedText = << >>
    /\ targetSegmentCount = 0
    /\ translatedSegments = << >>
    /\ rawSegments = <<>>
    /\ whisperSegments = << >>
    /\ alignedSegments = << >>
    /\ originalDuration = 0
    /\ TsIdle
    /\ JobIdle

Next ==
    \/ ProcessVideo
    \/ DownloadDone
    \/ ExtractDone
    \/ TranscribeDone
    \/ TranslateDone
    \/ TsStart
    \/ TsSegmentBegin
    \/ TsSegmentEnd
    \/ TsSegmentFail
    \/ TsFinalize
    \/ TsAudioToolFail
    \/ SynthCatchTs
    \/ PropStart
    \/ PropSegmentBegin
    \/ PropSegmentEnd
    \/ PropSegmentFail
    \/ PropFinalize
    \/ SynthThrow
    \/ SynthReturn
    \/ RemuxDone
    \/ SynthesizerSilent
    \/ CancelProcess

Spec == Init /\ [][Next]_vars

\* SpecCtl: the same job with status requests and cancel requests for a job
\* that is no longer registered arriving at any time
NextCtl ==
    \/ ProcessVideo
    \/ DownloadDone
    \/ ExtractDone
    \/ TranscribeDone
    \/ TranslateDone
    \/ TsStart
    \/ TsSegmentBegin
    \/ TsSegmentEnd
    \/ TsSegmentFail
    \/ TsFinalize
    \/ TsAudioToolFail
    \/ SynthCatchTs
    \/ PropStart
    \/ PropSegmentBegin
    \/ PropSegmentEnd
    \/ PropSegmentFail
    \/ PropFinalize
    \/ SynthThrow
    \/ SynthReturn
    \/ RemuxDone
    \/ SynthesizerSilent
    \/ CancelProcess
    \/ CancelUnknown
    \/ GetStatus

SpecCtl == Init /\ [][NextCtl]_vars

\* The event loop runs every callback that is ready, and every request that
\* answers at all answers eventually
SpecFair == Spec /\ WF_vars(Next)

-----------------------------------------------------------------------------
(* SpecHook: the renderer hook useVideoProcessor starting one job, with the  *)
(* backend seen from the hook: the job is created when the request arrives,  *)
(* emits 'progress' broadcasts and one 'process-complete' broadcast.  A      *)
(* broadcast reaches the sockets connected when it is emitted.               *)

\* largest number of 'progress' broadcasts of the job
MaxBroadcasts == 3

\* the id the backend gives the job
TheJobId == 1

pipelineVars == << phase, translatedText, targetSegmentCount, translatedSegments,
                   rawSegments, whisperSegments, alignedSegments, originalDuration,
                   tsVars, jobVars, trVars, toolVars, ctlVars >>

Broadcast(kind, success) == [kind |-> kind, jobId |-> TheJobId, success |-> success]

\* io.emit(...): the event is queued for the open socket if it is connected
Emitted(event) == IF socket.connected THEN Append(inbox, event) ELSE inbox

\* The test of both handlers with the jobId the closure holds:
\* currentJobId && event.jobId === currentJobId
ForCurrentJob(closureJobId, event) ==
    closureJobId # NoJobId /\ event.jobId = closureJobId

\* The socket effect on mount: io(BACKEND_URL) with handlers that closed over
\* currentJobId = null
Mount ==
    /\ socket = NoSocket
    /\ socket' = [jobId |-> currentJobId, connected |-> FALSE]
    /\ UNCHANGED << hpc, processing, hookResult, currentJobId, currentStage,
                    effectPending, inbox, server, response, broadcasts, pipelineVars >>

\* The socket connected to the backend
SocketConnects ==
    /\ socket # NoSocket
    /\ ~socket.connected
    /\ socket' = [socket EXCEPT !.connected = TRUE]
    /\ UNCHANGED << hpc, processing, hookResult, currentJobId, currentStage,
                    effectPending, inbox, server, response, broadcasts, pipelineVars >>

\* startProcessing up to "await fetch"
StartProcessing ==
    /\ hpc = "idle"
    /\ socket # NoSocket
    /\ processing' = TRUE
    /\ currentStage' = "IDLE"
    /\ hookResult' = NoHookResult
    /\ hpc' = "fetching"
    /\ UNCHANGED << currentJobId, socket, effectPending, inbox, server, response,
                    broadcasts, pipelineVars >>

\* ProcessController.processVideo: process() runs to its first await and
\* emits the first progress event, then the handler answers with the jobId
BackendAccepts ==
    /\ hpc = "fetching"
    /\ server = "none"
    /\ server' = "running"
    /\ broadcasts' = 1
    /\ inbox' = Emitted(Broadcast("progress", FALSE))
    /\ response' = TRUE
    /\ UNCHANGED << hpc, processing, hookResult, currentJobId, currentStage, socket,
                    effectPending, pipelineVars >>

\* processor.on('progress', update => io.emit('progress', update))
BackendProgress ==
    /\ server = "running"
    /\ broadcasts < MaxBroadcasts
    /\ broadcasts' = broadcasts + 1
    /\ inbox' = Emitted(Broadcast("progress", FALSE))
    /\ UNCHANGED << hpc, processing, hookResult, currentJobId, currentStage, socket,
                    effectPending, server, response, pipelineVars >>

\* process().then(result => io.emit('process-complete', result))
BackendComplete ==
    /\ server = "running"
    /\ server' = "complete"
    /\ \E success \in BOOLEAN : inbox' = Emitted(Broadcast("process-complete", success))
    /\ UNCHANGED << hpc, processing, hookResult, currentJobId, currentStage, socket,
                    effectPending, response, broadcasts, pipelineVars >>

\* startProcessing after the await: setCurrentJobId(data.jobId); the change
\* of currentJobId schedules the socket effect
ResponseArrives ==
    /\ hpc = "fetching"
    /\ response
    /\ response' = FALSE
    /\ currentJobId' = TheJobId
    /\ effectPending' = TRUE
    /\ hpc' = "done"
    /\ UNCHANGED << processing, hookResult, currentStage, socket, inbox, server,
                    broadcasts, pipelineVars >>

\* The socket effect re-runs: the cleanup closes the old socket, whose
\* unhandled events are gone, and a new socket is created whose handlers
\* close over the new currentJobId
EffectRuns ==
    /\ effectPending
    /\ effectPending' = FALSE
    /\ socket' = [jobId |-> currentJobId, connected |-> FALSE]
    /\ inbox' = << >>
    /\ UNCHANGED << hpc, processing, hookResult, currentJobId, currentStage, server,
                    response, broadcasts, pipelineVars >>

\* The open socket's handler of the next event it received
HandleBroadcast ==
    /\ inbox # << >>
    /\ inbox' = Tail(inbox)
    /\ LET event == Head(inbox)
           mine  == ForCurrentJob(socket.jobId, event)
       IN  IF event.kind = "progress"
           THEN /\ currentStage' = IF mine THEN "RUNNING" ELSE currentStage
                /\ UNCHANGED << processing, hookResult >>
           ELSE /\ processing' = IF mine THEN FALSE ELSE processing
                /\ hookResult' = IF mine
                                 THEN [jobId |-> event.jobId, success |-> event.success]
                                 ELSE hookResult
                /\ UNCHANGED currentStage
    /\ UNCHANGED << hpc, currentJobId, socket, effectPending, server, response,
                    broadcasts, pipelineVars >>

NextHook ==
    \/ Mount
    \/ SocketConnects
    \/ StartProcessing
    \/ BackendAccepts
    \/ BackendProgress
    \/ BackendComplete
    \/ ResponseArrives
    \/ EffectRuns
    \/ HandleBroadcast

SpecHook == Init /\ [][NextHook]_vars

\* React runs every scheduled effect, the network delivers every message
\* and the backend job in this specification always resolves
SpecHookFair == SpecHook /\ WF_vars(NextHook)

-----------------------------------------------------------------------------
(* TranslationService.translate.  A text is the sequence of the lengths of  *)
(* its sentences (what text.split(/(?<=[.!?])\s+/) yields), sentences being *)
(* joined by one blank; an error message is the sequence of its words.      *)

\* const maxRetries = 3
MaxRetries == 3
\* const maxChunkSize = 5000
MaxChunkSize == 5000
\* const delay = 5000 * Math.pow(2, attempt - 1)
BackoffBaseMs == 5000
\* setTimeout(resolve, 2000) between two chunks
ChunkPauseMs == 2000

MaxSentences == 3
SentenceLengths == {2000, 3000}

\* text.length
TextLength(text) == IF text = << >> THEN 0 ELSE SumOf(text) + Len(text) - 1

\* the delay slept before a retry, always 5000
BackoffDelayFixed(n) == BackoffBaseMs

\* const delay = 5000 * Math.pow(2, attempt - 1)
BackoffDelay(n) == BackoffBaseMs * 2 ^ (n - 1)

\* error.message && error.message.includes('Too Many Requests')
RateLimited(message) ==
    /\ message # << >>
    /\ IndexOf(message, <<"Too", "Many", "Requests">>, 0) # -1

\* translateLongText: the lengths of the chunks it sends, in order
Chunks(sentences) ==
    LET scan[k \in 1..(Len(sentences) + 1), currentChunk \in 0..(TextLength(sentences) + 1)] ==
            IF k > Len(sentences)
            THEN IF currentChunk > 0 THEN <<currentChunk>> ELSE << >>
            ELSE IF currentChunk + sentences[k] > MaxChunkSize
                 THEN (IF currentChunk > 0 THEN <<currentChunk>> ELSE << >>)
                      \o scan[k + 1, sentences[k]]
                 ELSE scan[k + 1, currentChunk + (IF currentChunk > 0 THEN 1 ELSE 0)
                                  + sentences[k]]
    IN  scan[1, 0]

\* The requests one attempt of translateWithGoogle sends when none fails
GoogleRequests(text) ==
    IF TextLength(text) <= MaxChunkSize THEN <<TextLength(text)>> ELSE Chunks(text)

\* What one attempt sends and sleeps when its first upTo - 1 requests succeed
\* and request upTo has the given outcome
AttemptEvents(text, n, upTo, outcome) ==
    LET sizes == GoogleRequests(text)
        request(k) ==
            (IF k > 1 THEN <<[kind |-> "pause", ms |-> ChunkPauseMs]>> ELSE << >>)
            \o <<[kind |-> "google", attempt |-> n, size |-> sizes[k],
                  outcome |-> IF k = upTo THEN outcome ELSE <<"ok">>]>>
        upto[k \in 0..upTo] == IF k = 0 THEN << >> ELSE upto[k - 1] \o request(k)
    IN  (IF n > 0 THEN <<[kind |-> "backoff", ms |-> BackoffDelay(n)]>> ELSE << >>)
        \o upto[upTo]

TranslationTexts == UNION {[1..n -> SentenceLengths] : n \in 0..MaxSentences}
Languages == {"en", "it"}
\* messages of the errors a request may fail with
ErrorMessages ==
    { <<"Too", "Many", "Requests">>, <<"429", "Too", "Many", "Requests">>,
      <<"Too", "Many">>, <<"socket", "hang", "up">>, << >> }
\* what the translation services answer with
Replies == { <<1000>>, <<3000, 3000>> }

\* translate is called: line 211-222
TranslateCall ==
    /\ tpc = "idle"
    /\ \E text \in TranslationTexts, sourceLanguage \in Languages, targetLanguage \in Languages :
        /\ trInput' = [text |-> text, sourceLanguage |-> sourceLanguage,
                       targetLanguage |-> targetLanguage]
        /\ IF sourceLanguage = targetLanguage
           THEN /\ tpc' = "returned"
                /\ trResult' = [via |-> "original", text |-> text]
           ELSE /\ tpc' = "google"
                /\ trResult' = trResult
    /\ attempt' = 0
    /\ UNCHANGED trLog
    /\ UNCHANGED << phase, translatedText, targetSegmentCount, translatedSegments,
                    rawSegments, whisperSegments, alignedSegments, originalDuration >>
    /\ UNCHANGED << tsVars, jobVars, toolVars, ctlVars, hookVars >>

\* one iteration of the loop of translateWithGoogle (line 260-287), with the
\* throw after the loop (line 290) when it was the last one
GoogleAttempt ==
    /\ tpc = "google"
    /\ attempt < MaxRetries
    /\ \E upTo \in 1..Len(GoogleRequests(trInput.text)) :
        \/ /\ upTo = Len(GoogleRequests(trInput.text))
           /\ \E reply \in Replies :
               /\ trLog' = trLog \o AttemptEvents(trInput.text, attempt, upTo, <<"ok">>)
               /\ trResult' = [via |-> "google", text |-> reply]
               /\ tpc' = "returned"
               /\ attempt' = attempt
        \/ \E message \in ErrorMessages :
               /\ trLog' = trLog \o AttemptEvents(trInput.text, attempt, upTo, message)
               /\ trResult' = trResult
               /\ IF RateLimited(message)
                  THEN /\ attempt' = attempt + 1
                       /\ tpc' = IF attempt + 1 < MaxRetries THEN "google" ELSE "libre"
                  ELSE /\ attempt' = attempt
                       /\ tpc' = "libre"
    /\ UNCHANGED trInput
    /\ UNCHANGED << phase, translatedText, targetSegmentCount, translatedSegments,
                    rawSegments, whisperSegments, alignedSegments, originalDuration >>
    /\ UNCHANGED << tsVars, jobVars, toolVars, ctlVars, hookVars >>

\* the catch block of translate: translateWithLibreTranslate, and the
\* original text when it throws (line 229-246, 335-360)
LibreAttempt ==
    /\ tpc = "libre"
    /\ \E outcome \in {<<"ok">>, <<"Invalid", "response", "from", "LibreTranslate">>,
                       <<"timeout">>} :
        /\ trLog' = Append(trLog, [kind |-> "libre", attempt |-> 0,
                                   size |-> TextLength(trInput.text), outcome |-> outcome])
        /\ \/ /\ outcome = <<"ok">>
              /\ \E reply \in Replies : trResult' = [via |-> "libre", text |-> reply]
           \/ /\ outcome # <<"ok">>
              /\ trResult' = [via |-> "original", text |-> trInput.text]
    /\ tpc' = "returned"
    /\ UNCHANGED << trInput, attempt >>
    /\ UNCHANGED << phase, translatedText, targetSegmentCount, translatedSegments,
                    rawSegments, whisperSegments, alignedSegments, originalDuration >>
    /\ UNCHANGED << tsVars, jobVars, toolVars, ctlVars, hookVars >>

InitTr ==
    /\ TrIdle
    /\ HookIdle
    /\ ToolIdle
    /\ CtlIdle
    /\ phase = "idle"
    /\ translatedText = << >>
    /\ targetSegmentCount = 0
    /\ translatedSegments = << >>
    /\ rawSegments = << >>
    /\ whisperSegments = << >>
    /\ alignedSegments = << >>
    /\ originalDuration = 0
    /\ TsIdle
    /\ JobIdle

NextTr ==
    \/ TranslateCall
    \/ GoogleAttempt
    \/ LibreAttempt

SpecTr == InitTr /\ [][NextTr]_vars


-----------------------------------------------------------------------------
(* Claims about the splitter and the aligner *)

NoOverlap(al) == \A i \in 2..Len(al) : al[i].startTime >= al[i - 1].endTime

WhisperDisjoint(w) == \A i \in 2..Len(w) : w[i].start >= w[i - 1].end

C3_ExactlyNNonEmpty ==
    phase = "split:done" =>
        /\ Len(translatedSegments) = targetSegmentCount
        /\ \A i \in 1..Len(translatedSegments) : Len(translatedSegments[i]) >= 1

-----------------------------------------------------------------------------
(* Claims about synthesizeWithWhisperTimestamps (SpecTs) *)

LastWhisperEnd == whisperSegments[Len(whisperSegments)].end

\* C1 (as stated): whenever the timestamp strategy has returned, the final
\* duration is within 1% of the original duration:
\* |D_final - D_orig| / D_orig <= 0.01.
C1_FinalWithinOnePercent ==
    phase = "ts:done" =>
        100 * Abs(finalDuration - originalDuration) <= originalDuration

\* Population variance of the per-sample ratios actual/target around the
\* mean of those ratios
RatioVariance(samples) ==
    LET n      == Len(samples)
        ratios == [k \in 1..n |-> Frac(samples[k].actualDuration, samples[k].targetDuration)]
        mean   == FracMul(FracSum(ratios), <<1, n>>)
        sq     == [k \in 1..n |-> FracMul(FracSub(ratios[k], mean), FracSub(ratios[k], mean))]
    IN  FracMul(FracSum(sq), <<1, n>>)

\* sigma >= 0.3 for the ratios of the samples
SigmaAtLeastGate(samples) ==
    Len(samples) > 0 /\ ~FracLess(RatioVariance(samples), <<9, 100>>)

CalibrationIndex == calibrationSegmentCount(Len(alignedSegments))

\* The calibration block has run: the synthesizer was called for segment K
\* with a non-empty population
Calibrated ==
    /\ Len(calibrationSamples) > 0
    /\ \E k \in 1..Len(ttsCalls) : ttsCalls[k].seg = CalibrationIndex

\* C4: when the calibration samples' ratios actual/target have a population
\* standard deviation of at least 0.3, the adaptive rate after the calibration
\* step and the rate of every synthesizer call from the calibration step on
\* is exactly "+0%".
C4_NoisyPopulationGivesZeroRate ==
    (Calibrated /\ SigmaAtLeastGate(calibrationSamples)) =>
        /\ RateString(adaptiveTtsRate) = "+0%"
        /\ \A k \in 1..Len(ttsCalls) : RateString(ttsCalls[k].rate) = "+0%"

\* A noisy population whose mean ratio alone would have asked for a rate
\* other than 0, followed by a call after the calibration segment
C4_Witness ==
    /\ Calibrated
    /\ SigmaAtLeastGate(calibrationSamples)
    /\ RateOf(UngatedClampedRate(calibrationSamples)).num # 0
    /\ \E k \in 1..Len(ttsCalls) : ttsCalls[k].seg > CalibrationIndex

\* C5: in every state of a timestamp-strategy job the percentage of the
\* adaptive rate, and of the rate of every synthesizer call, lies in
\* [-100, +100].
C5_RateWithinBounds ==
    /\ adaptiveTtsRate.num \in -100..100
    /\ \A k \in 1..Len(ttsCalls) : ttsCalls[k].rate.num \in -100..100

\* The calibration asked for more than +100% and the rate is +100%
C5_Witness ==
    /\ Calibrated
    /\ FracLess(<<100, 1>>, RateAdjustment(calibrationSamples))
    /\ adaptiveTtsRate.num = 100
    /\ ttsCalls[Len(ttsCalls)].rate.num = 100

SilenceKinds == {"silence", "placeholder", "silence_final"}

\* C6 (as stated): every silence artifact enqueued for concatenation
\* (leading, inter-segment, placeholder for a segment, trailing) lasts at
\* least 20 ms.
C6_EverySilenceAtLeastThreshold ==
    \A k \in 1..Len(segmentAudioFiles) :
        segmentAudioFiles[k].kind \in SilenceKinds =>
            segmentAudioFiles[k].dur >= SilenceThresholdMs

\* C6 (amended): every leading, inter-segment and trailing silence enqueued
\* lasts more than 20 ms; the placeholder of a segment without text lasts
\* exactly that segment's target duration, whatever it is.
C6_GapSilencesAboveThreshold ==
    \A k \in 1..Len(segmentAudioFiles) :
        LET a == segmentAudioFiles[k]
        IN  /\ a.kind \in {"silence", "silence_final"} => a.dur > SilenceThresholdMs
            /\ a.kind = "placeholder" =>
                   a.dur = alignedSegments[a.seg + 1].endTime
                           - alignedSegments[a.seg + 1].startTime

\* A gap of at most 20 ms was skipped, a gap just above it was filled, and a
\* placeholder shorter than 20 ms was enqueued
C6_Witness ==
    /\ phase = "ts:done"
    /\ \E k \in 1..Len(segmentAudioFiles) :
          /\ segmentAudioFiles[k].kind = "silence"
          /\ segmentAudioFiles[k].dur = SilenceThresholdMs + 1
    /\ \E k \in 1..Len(segmentAudioFiles) :
          /\ segmentAudioFiles[k].kind = "placeholder"
          /\ segmentAudioFiles[k].dur < SilenceThresholdMs
    /\ \E i \in 1..(Len(alignedSegments) - 1) :
          /\ SilenceBefore(alignedSegments, i) \in 1..SilenceThresholdMs
          /\ \A k \in 1..Len(segmentAudioFiles) :
                ~(segmentAudioFiles[k].kind = "silence" /\ segmentAudioFiles[k].seg = i)

\* C7 (as stated): when the last recognizer segment ends after D_orig, the
\* last aligned segment's end is clamped to D_orig and no trailing silence is
\* enqueued.
C7_OverrunClampsLastEnd ==
    (phase \in {"ts:loop", "ts:tts", "ts:done"} /\ originalDuration < LastWhisperEnd) =>
        /\ alignedSegments[Len(alignedSegments)].endTime = originalDuration
        /\ \A k \in 1..Len(segmentAudioFiles) :
              segmentAudioFiles[k].kind # "silence_final"

-----------------------------------------------------------------------------
(* Claims about the whole job (Spec) *)

Ran(name) == \E k \in 1..Len(strategiesRun) : strategiesRun[k] = name

\* C8 (as stated): a synthesis failure degrades the strategy by exactly one
\* level: a failed timestamp strategy is followed by the proportional
\* strategy, a failed proportional strategy by the single-shot strategy, and
\* the job fails on synthesis only if the single-shot strategy failed too.
C8_DegradesOneLevel ==
    /\ "timestamp" \in failedStrategies => Ran("proportional")
    /\ "proportional" \in failedStrategies => Ran("single-shot")
    /\ (vpc = "resolved" /\ jobResult.error = "TTS synthesis failed") =>
           "single-shot" \in failedStrategies

\* C9 (as stated): whenever process() has resolved, on every exit path, the
\* job's temporary directory and every file in it have been deleted.
C9_TempDirDeletedOnResolve ==
    vpc = "resolved" => (~tempDirExists /\ tempFiles = {})

\* C10 (as stated): when cancel() ran while segment i was being synthesized,
\* no synthesizer call is issued afterwards for a segment j > i, and the job
\* resolves as cancelled.
C10_CancelStopsSynthesis ==
    cancelSeen.phase \in {"ts:tts", "prop:tts"} =>
        /\ \A k \in 1..Len(ttsCalls) :
              k > cancelSeen.calls => ttsCalls[k].seg <= cancelSeen.seg
        /\ vpc = "resolved" => jobResult.error = CancelledMessage

\* C11 (as stated): every synthesizer call is abandoned after its deadline,
\* so under fair scheduling every job eventually terminates (process()
\* resolves), even when the synthesizer never answers.
C11_EveryJobTerminates == <>(vpc = "resolved")

\* A string of the form HH:MM:SS,mmm or HH:MM:SS.mmm
IsSRTTimestamp(stamp) ==
    /\ Len(stamp) = 12
    /\ \A p \in 1..12 :
          IF p \in {3, 6} THEN stamp[p] = ":"
          ELSE IF p = 9 THEN stamp[p] \in {",", "."}
          ELSE stamp[p] \in DigitSet

MalformedTimestampSeen ==
    \E k \in 1..Len(rawSegments) :
        ~IsSRTTimestamp(rawSegments[k].from) \/ ~IsSRTTimestamp(rawSegments[k].to)

\* C12 (as stated): when a recognizer timestamp is not of the form
\* HH:MM:SS,mmm or HH:MM:SS.mmm, the job is rejected with BadTimestamp
\* before any synthesizer call is made.
C12_MalformedTimestampRejected ==
    MalformedTimestampSeen =>
        /\ vpc = "resolved"
        /\ jobResult.error = "BadTimestamp"
        /\ ttsCalls = << >>

\* C13 (as stated): every rate string passed to a synthesizer call is
\* "+0%", "+N%" or "-N%" with N an integer in [0, 100].
C13_RateStringWellFormed ==
    \A k \in 1..Len(ttsCalls) :
        \E n \in 0..100 :
            RateString(ttsCalls[k].rate) \in
                {"+" \o ToString(n) \o "%", "-" \o ToString(n) \o "%"}

\* The events of the log of one kind, in order
EventsOf(kind) == SelectSeq(trLog, LAMBDA ev : ev.kind = kind)

\* The Google requests that failed, and the attempts that were started
FailedGoogle == {k \in 1..Len(trLog) : trLog[k].kind = "google" /\ trLog[k].outcome # <<"ok">>}
AttemptsStarted == {trLog[k].attempt : k \in {j \in 1..Len(trLog) : trLog[j].kind = "google"}}

\* A 'Too Many Requests' error
IsTooManyRequests(message) == IndexOf(message, <<"Too", "Many", "Requests">>, 0) # -1

\* Google Translate failed for good: with another error, or rate-limited in
\* the third attempt
GoogleGaveUp ==
    \E k \in FailedGoogle : ~IsTooManyRequests(trLog[k].outcome) \/ trLog[k].attempt = 2

C15_CalibrationCountIsCeiling ==
    (phase \in {"ts:loop", "ts:tts", "ts:done"} /\ Len(alignedSegments) >= 1) =>
        /\ calibrationSegmentCount(Len(alignedSegments))
               = Min(15, CeilDiv(Len(alignedSegments), 5))
        /\ calibrationSegmentCount(Len(alignedSegments)) >= 1

\* The rate the spec prescribes for a population:
\* clamp(round((mean_actual/mean_target - 1) * 100), -100, +100)
PrescribedRate(samples) ==
    LET adj == RateAdjustment(samples)
    IN  Max(-100, Min(100, RoundDiv(adj[1], adj[2])))

\* C16 (as stated): if at least one calibration sample was recorded and its
\* sigma is below 0.3, every synthesizer call for a segment with index >= K
\* uses the prescribed rate, whichever segments are silence placeholders.
C16_CalibratedRateOnEveryLaterCall ==
    (Len(calibrationSamples) > 0 /\ ~SigmaAtLeastGate(calibrationSamples)) =>
        \A k \in 1..Len(ttsCalls) :
            ttsCalls[k].seg >= CalibrationIndex =>
                ttsCalls[k].rate.num = PrescribedRate(calibrationSamples)

\* The synthesizer has been called for a segment with index >= K
CalledFromK(calls) == \E k \in 1..Len(calls) : calls[k].seg >= CalibrationIndex

\* C17: within one timestamp-strategy job the adaptive rate changes at most
\* once and only while segment K is processed (the step that issues the
\* first call for an index >= K, which is the call for K); every call for a
\* segment with index < K uses "+0%"; processing any other segment leaves
\* the rate unchanged.
C17_RateChangesOnlyAtK ==
    /\ [][adaptiveTtsRate' # adaptiveTtsRate =>
              /\ segIdx = CalibrationIndex
              /\ ~CalledFromK(ttsCalls)
              /\ ttsCalls' = Append(ttsCalls, [strategy |-> "timestamp",
                                 seg |-> CalibrationIndex, rate |-> adaptiveTtsRate'])]_vars
    /\ [][segIdx # CalibrationIndex => adaptiveTtsRate' = adaptiveTtsRate]_vars
    /\ [](\A k \in 1..Len(ttsCalls) :
              ttsCalls[k].seg < CalibrationIndex => RateString(ttsCalls[k].rate) = "+0%")

\* A calibrated job past segment K: calls at "+0%" below K, a changed rate
\* from K on
C17_Witness ==
    /\ CalibrationIndex >= 2
    /\ adaptiveTtsRate.num # 0
    /\ \E k \in 1..Len(ttsCalls) : ttsCalls[k].seg = CalibrationIndex - 1
    /\ \E k \in 1..Len(ttsCalls) :
          ttsCalls[k].seg > CalibrationIndex /\ ttsCalls[k].rate = adaptiveTtsRate

\* Sum of the enqueued leading, inter-segment and trailing silences
EnqueuedSilence ==
    SumOf([k \in 1..Len(segmentAudioFiles) |->
              IF segmentAudioFiles[k].kind \in {"silence", "silence_final"}
              THEN segmentAudioFiles[k].dur ELSE 0])

\* Sum of the target durations of the aligned segments
TargetTotal ==
    SumOf([k \in 1..Len(alignedSegments) |->
              alignedSegments[k].endTime - alignedSegments[k].startTime])

\* C18 (as stated): for every aligned list with non-negative gaps, first
\* start >= 0 and last end <= D_orig, the enqueued silences plus the target
\* durations differ from D_orig by at most 20 ms.
C18_TimelineSumsToOriginal ==
    ( /\ phase = "ts:done"
      /\ NoOverlap(alignedSegments)
      /\ alignedSegments[1].startTime >= 0
      /\ alignedSegments[Len(alignedSegments)].endTime <= originalDuration ) =>
        Abs(EnqueuedSilence + TargetTotal - originalDuration) <= 20

\* C19 (as stated): for every stretch with tempo factor tau = actual/target
\* within [0.25, 4.0], also outside [0.5, 2.0], the atempo chain has product
\* tau, so the stretched duration equals the target duration exactly.
C19_StretchReachesTarget ==
    \A k \in 1..Len(segmentAudioFiles) :
        LET file   == segmentAudioFiles[k]
            seg    == alignedSegments[file.seg + 1]
            target == seg.endTime - seg.startTime
        IN  ( /\ file.kind = "ts_stretched.wav"
              /\ 4 * file.input >= target
              /\ file.input <= 4 * target ) => file.dur = target

\* The recognizer interval entry k (1-based) is mapped to in Case C
MappedInterval(k) ==
    whisperSegments[Min(((k - 1) * Len(whisperSegments)) \div Len(translatedSegments),
                        Len(whisperSegments) - 1) + 1]

\* The maximal run of consecutive entries around k sharing k's interval
RunOf(k) ==
    {j \in 1..Len(translatedSegments) :
        \A x \in Min(j, k)..Max(j, k) : MappedInterval(x) = MappedInterval(k)}

\* Text length of the entries of a run up to entry k, k excluded
TextBefore(run, k) ==
    SumLen([x \in 1..Len(translatedSegments) |->
               IF x \in run /\ x < k THEN translatedSegments[x] ELSE << >>])

\* C20 (as stated): in Case C (M > R) the overlap repair re-times only the
\* maximal runs of consecutive entries sharing one recognizer interval: such
\* a run is contiguous, starts at the interval's start, ends at its end and
\* has durations proportional to the text lengths; an entry mapped to a
\* different recognizer segment keeps that segment's own start and end, also
\* when the recognizer's intervals overlap.
C20_RepairStaysInsideTheRun ==
    (phase = "align:done" /\ Len(translatedSegments) > Len(whisperSegments)) =>
        /\ Len(alignedSegments) = Len(translatedSegments)
        /\ \A k \in 1..Len(alignedSegments) :
              LET iv    == MappedInterval(k)
                  run   == RunOf(k)
                  total == TextBefore(run, Len(translatedSegments) + 1)
                  range == iv.end - iv.start
              IN  /\ alignedSegments[k].text = translatedSegments[k]
                  /\ alignedSegments[k].startTime * total
                         = iv.start * total + range * TextBefore(run, k)
                  /\ alignedSegments[k].endTime * total
                         = iv.start * total
                           + range * (TextBefore(run, k) + Len(translatedSegments[k]))

\* The recognizer indices (0-based) assigned to translated index t in Case B
AssignedTo(t) ==
    {i \in 0..(Len(whisperSegments) - 1) :
        WhisperToTranslated(i, Len(translatedSegments), Len(whisperSegments)) = t}

\* C21: in Case B (1 <= M < R) the output has exactly M entries in part
\* order, the recognizer indices assigned to the entries are consecutive
\* non-empty ranges that partition 0..R-1 in order, and entry t spans from
\* the start of the first recognizer segment of its range to the end of the
\* last one.
C21_GroupedKeepsEveryPart ==
    ( /\ phase = "align:done"
      /\ Len(translatedSegments) >= 1
      /\ Len(translatedSegments) < Len(whisperSegments) ) =>
        /\ Len(alignedSegments) = Len(translatedSegments)
        /\ UNION {AssignedTo(t) : t \in 0..(Len(translatedSegments) - 1)}
               = 0..(Len(whisperSegments) - 1)
        /\ \A t \in 0..(Len(translatedSegments) - 1) :
              /\ AssignedTo(t) # {}
              /\ \A i \in AssignedTo(t), j \in AssignedTo(t) : i..j \subseteq AssignedTo(t)
              /\ \A u \in 0..(t - 1) : \A i \in AssignedTo(u), j \in AssignedTo(t) : i < j
              /\ alignedSegments[t + 1].text = translatedSegments[t + 1]
              /\ \E first \in AssignedTo(t), last \in AssignedTo(t) :
                    /\ \A i \in AssignedTo(t) : first <= i /\ i <= last
                    /\ alignedSegments[t + 1].startTime = whisperSegments[first + 1].start
                    /\ alignedSegments[t + 1].endTime = whisperSegments[last + 1].end

\* Case B with two parts over three recognizer segments has been aligned
C21_Witness ==
    /\ phase = "align:done"
    /\ Len(translatedSegments) = 2
    /\ Len(whisperSegments) = 3
    /\ Len(alignedSegments) = 2
    /\ alignedSegments[1].endTime # whisperSegments[1].end

\* Every recognizer segment has a numeric and finite start and end
AllFinite(segs) ==
    \A k \in 1..Len(segs) :
        {segs[k].start, segs[k].end} \cap {NaN, Infinity} = {}

TimestampStrategyRan == \E k \in 1..Len(strategiesRun) : strategiesRun[k] = "timestamp"

\* C22 (as stated): the timestamp strategy is run if and only if every
\* recognizer segment has a numeric and finite start and end; a list with a
\* NaN or infinite time is never processed by the timestamp strategy.
C22_TimestampStrategyIffFinite ==
    /\ TimestampStrategyRan => AllFinite(whisperSegments)
    /\ (strategiesRun # << >> /\ Len(whisperSegments) > 0 /\ AllFinite(whisperSegments))
           => TimestampStrategyRan


\* C23: when an audio-toolkit operation (duration probe, silence generation,
\* format conversion, time-stretch, concatenation) fails during the timestamp
\* strategy, the job fails: no other strategy is run afterwards and the job
\* does not report success
C23_AudioToolFailureFailsJob ==
    toolFailures # {} =>
        /\ strategiesRun = << "timestamp" >>
        /\ ~(vpc = "resolved" /\ jobResult.success)


\* currentPos at the start of iteration i of splitTextProportionally
RECURSIVE CurrentPosAt(_, _, _)
CurrentPosAt(text, n, i) ==
    IF i = 0 THEN 0 ELSE BreakPos(text, n, i - 1, CurrentPosAt(text, n, i - 1))

\* Start positions of the breaks of class c inside the search window of
\* iteration i: searchStart <= pos < searchEnd
WindowBreaks(text, n, i, c) ==
    LET idealEndPos  == RoundDiv((i + 1) * Len(text), n)
        searchWindow == Len(text) \div (5 * n)
        searchStart  == Max(CurrentPosAt(text, n, i) + 1, idealEndPos - searchWindow)
        searchEnd    == Min(Len(text) - 1, idealEndPos + searchWindow)
    IN  {pos \in searchStart..(searchEnd - 1) : MatchAt(text, breakChars[c], pos)}

\* The cuts after the breaks of class c that are closest to the ideal cut
ClosestCuts(text, n, i, c) ==
    LET idealEndPos == RoundDiv((i + 1) * Len(text), n)
        found       == WindowBreaks(text, n, i, c)
    IN  {pos + Len(breakChars[c]) :
            pos \in {p \in found :
                       \A q \in found : Abs(p - idealEndPos) <= Abs(q - idealEndPos)}}

\* C24: for every non-final cut of splitTextProportionally, when the search
\* window holds a break of some class, the cut is the one after a break of
\* the highest class present in the window, and among the breaks of that
\* class after one closest to the ideal cut.
C24_CutAtHighestClassClosestBreak ==
    (phase = "split:done" /\ targetSegmentCount >= 2) =>
        \A i \in 0..(targetSegmentCount - 2) :
           \A c \in 1..Len(breakChars) :
              (/\ WindowBreaks(translatedText, targetSegmentCount, i, c) # {}
               /\ \A d \in 1..(c - 1) :
                     WindowBreaks(translatedText, targetSegmentCount, i, d) = {})
              => BreakPos(translatedText, targetSegmentCount, i,
                          CurrentPosAt(translatedText, targetSegmentCount, i))
                     \in ClosestCuts(translatedText, targetSegmentCount, i, c)


\* The characters of s that are not whitespace, in order
NonWhitespace(s) == SelectSeq(s, LAMBDA ch : ~IsSpace(ch))

\* The parts one after the other
RECURSIVE Joined(_)
Joined(parts) == IF parts = << >> THEN << >> ELSE Head(parts) \o Joined(Tail(parts))

\* C25: for every text T and every N >= 1, the non-whitespace characters of
\* the parts splitTextProportionally(T, N) returns, read in order, are
\* exactly the non-whitespace characters of T in order.
C25_NonWhitespacePreserved ==
    phase = "split:done" =>
        NonWhitespace(Joined(translatedSegments)) = NonWhitespace(translatedText)

\* C25 witness: a text cut in the middle of a word and at a break, with
\* whitespace trimmed away at a cut
C25_Witness ==
    /\ phase = "split:done"
    /\ targetSegmentCount >= 2
    /\ Len(translatedText) = LongTextLen
    /\ \A k \in 1..Len(translatedSegments) : NonWhitespace(translatedSegments[k]) # << >>
    /\ Len(Joined(translatedSegments)) < Len(translatedText)
    /\ NonWhitespace(translatedText) # translatedText


\* The segments the timestamp strategy has gone through whose trimmed text
\* is empty (0-based indices)
PlaceholdersDone ==
    {i \in 0..(segIdx - 1) : Trim(alignedSegments[i + 1].text) = << >>}

\* C26: on an empty or whitespace-only translated text the timestamp strategy
\* issues no synthesizer call and every artifact it enqueues is silence; in
\* any run, a segment whose trimmed text is empty enqueues exactly one
\* silence, of the segment's target duration, and never reaches the
\* synthesizer.
C26_BlankTextOnlySilence ==
    /\ Trim(translatedText) = << >> =>
          /\ ttsCalls = << >>
          /\ \A k \in 1..Len(segmentAudioFiles) : segmentAudioFiles[k].kind \in SilenceKinds
    /\ phase \in {"ts:loop", "ts:tts", "ts:done"} =>
          \A i \in PlaceholdersDone :
             /\ Cardinality({k \in 1..Len(segmentAudioFiles) :
                                /\ segmentAudioFiles[k].seg = i
                                /\ segmentAudioFiles[k].kind \notin {"silence", "silence_final"}}) = 1
             /\ \E k \in 1..Len(segmentAudioFiles) :
                   segmentAudioFiles[k] =
                       Artifact("placeholder", i,
                           alignedSegments[i + 1].endTime - alignedSegments[i + 1].startTime)
             /\ \A k \in 1..Len(ttsCalls) : ttsCalls[k].seg # i

\* C26 witness: a whitespace-only text of two characters over two recognizer
\* segments has gone through the whole timestamp strategy, with a gap
\* silence and two placeholder silences enqueued
C26_Witness ==
    /\ phase = "ts:done"
    /\ translatedText = Blanks(2)
    /\ Len(whisperSegments) = 2
    /\ PlaceholdersDone = {0, 1}
    /\ Len(segmentAudioFiles) >= 3
    /\ ttsCalls = << >>


\* C27: the percentages of the progress events of a job are non-decreasing
\* in emission order on every path, stage failure and cancellation included.
C27_ProgressNonDecreasing ==
    \A k \in 1..(Len(progress) - 1) : progress[k] <= progress[k + 1]


\* C28: a job on which cancel() was called before process() resolved never
\* resolves with success: true; its result has success = false and the
\* cancellation error.
C28_CancelledJobReportsCancellation ==
    (vpc = "resolved" /\ cancelled) =>
        /\ ~jobResult.success
        /\ jobResult.error = CancelledMessage


C30_CompletionEventuallyHandled ==
    (server = "complete") ~> (processing = FALSE /\ hookResult # NoHookResult)

=============================================================================
